---- MODULE Spec2Model ----
(***************************************************************************)
(* The WebRTC stream-muxer adapter of transports/webrtc/src/connection.rs: *)
(* a Connection wraps an RTCPeerConnection, queues the remote's data       *)
(* channels for poll_inbound, opens data channels in poll_outbound and     *)
(* closes the peer connection in poll_close.                               *)
(*                                                                         *)
(* The adapter's callers and the peer-connection library are the           *)
(* environment: the callers may call the poll_* methods in any order and   *)
(* at any time; the library runs the data-channel handlers and completes   *)
(* create_data_channel, detach and close in any interleaving.              *)
(*                                                                         *)
(* The futures-channel mpsc queue is modelled by what it does: every       *)
(* clone of the Sender owns one guaranteed slot (its own parked flag), a   *)
(* send is refused only when the sending clone is still parked or the      *)
(* receiver has closed the channel.                                        *)
(***************************************************************************)
EXTENDS Naturals, Sequences, FiniteSets

\* connection.rs:46
MAX_DATA_CHANNELS_IN_FLIGHT == 10
\* upgrade.rs:131-132: a valid protocol name does not exceed 140 bytes
MAX_PROTOCOL_LEN == 140

\* Incoming data channels the remote opens in the full specification.
MaxChannels == 2
\* create_data_channel calls in one behaviour.
MaxOutbound == 2
\* Incoming data channels of the burst specification (scenario S6: 12).
MaxFlood == 12
\* Capacities a caller passes to set_data_channels_read_buf_capacity: 1..MaxCap.
MaxCap == 2
\* Combinators nested around a leaf upgrade.
MaxDepth == 1
\* Longest string handed to the constructors of Protocol, in bytes.
MaxNameLen == 141

VARIABLES
    chan,         \* incoming data channels, by arrival: the position of each one's handler
    opened,       \* incoming channels in the order their on_open handlers fired
    queue,        \* the mpsc buffer: detached channels sent and not yet received
    rx_open,      \* the mpsc channel is open (Receiver::close not called)
    parked,       \* the mpsc parked queue: sender clones that are parked
    sent,         \* incoming channels in the order try_send accepted them
    delivered,    \* substreams poll_inbound returned, in order
    outbound_fut, \* ConnectionInner::outbound_fut: None, or the await point of the future
    close_fut,    \* ConnectionInner::close_fut: None, or the await point of the future
    peer_lock,    \* holder of the FutMutex around the RTCPeerConnection
    create_res,   \* the library's create_data_channel call: idle, running, ok, err
    close_res,    \* the library's RTCPeerConnection::close call: idle, running, ok, err
    och,          \* outbound data channels, by creation: the position of each one's handler
    create_calls, \* create_data_channel calls started
    close_calls,  \* RTCPeerConnection::close calls started
    out_ready,    \* poll_outbound calls that returned Ready
    close_ready,  \* poll_close calls that returned Ready
    conn_state,   \* Open, Closing (poll_close was called), Closed (poll_close returned Ok),
                  \* Dropped (the Connection was dropped)
    faulted,      \* a poll_* call panicked
    ret,          \* the last poll_* call and what it returned
    read_buf_cap, \* ConnectionInner::read_buf_cap: << >> for None, << n >> for Some(n)
    substreams,   \* the PollDataChannels the poll_* calls returned, in order
    upgrade,      \* the upgrade value handed to apply
    endpoint,     \* "Inbound" (apply_inbound, listener) or "Outbound" (apply_outbound, dialer)
    remote,       \* the protocol names the remote peer accepts
    apply_pc,     \* "idle", "negotiating", "handshake", "done"
    offered,      \* the protocols handed to multistream-select
    warned,       \* the names a diagnostic was logged for
    select_calls, \* negotiations started
    select_res,   \* "none", "Ok", "NoProtocol", "ProtocolError"
    negotiated,   \* << >>, or << p >> for the selected protocol p
    hs_log,       \* handshakes invoked: the upgrade invoked and the protocol passed
    fn_calls,     \* applications of the closures of Map and MapErr
    apply_ret,    \* what apply returned
    peer,         \* the apply call of the dialer at the other end of the socket
    pname,        \* the string handed to a constructor of Protocol
    pctor,        \* the constructor called on pname, and what it returned
    pround,       \* what try_from_owned returned for as_str of the constructed protocol
    builder,      \* the SwarmBuilder value: its provider, its phase and what the phase holds
    bcall         \* the builder methods called so far: the provider method, the last
                  \* method and its result, and the executor build handed the swarm to

vars == << chan, opened, queue, rx_open, parked, sent, delivered, outbound_fut,
           close_fut, peer_lock, create_res, close_res, och, create_calls,
           close_calls, out_ready, close_ready, conn_state, faulted, ret,
           read_buf_cap, substreams, upgrade, endpoint, remote, apply_pc, offered,
           warned, select_calls, select_res, negotiated, hs_log, fn_calls,
           apply_ret, peer, pname, pctor, pround, builder, bcall >>

inbound_vars == << chan, opened, queue, rx_open, parked, sent, delivered >>
outbound_vars == << outbound_fut, create_res, och, create_calls, out_ready >>
close_vars == << close_fut, close_res, close_calls, close_ready, conn_state >>
hint_vars == << read_buf_cap, substreams >>
apply_vars == << upgrade, endpoint, remote, apply_pc, offered, warned, select_calls,
                 select_res, negotiated, hs_log, fn_calls, apply_ret >>
conn_vars == << inbound_vars, outbound_vars, close_vars, hint_vars, peer_lock,
                faulted, ret >>
pair_vars == << peer >>
proto_vars == << pname, pctor, pround >>
builder_vars == << builder, bcall >>

Range(s) == { s[i] : i \in 1..Len(s) }

\* What a poll_* call returned: res, the channel of an Ok(substream), and
\* whether the call found a future in its slot (a repeated poll).
Result(op, res, ch, found) == [op |-> op, res |-> res, ch |-> ch, found |-> found]

\* An apply call that has not started.
PeerIdle ==
    [upgrade |-> << "Denied" >>, pc |-> "idle", offered |-> << >>,
     negotiated |-> << >>, hs_log |-> << >>, ret |-> << "none" >>]

\* A SwarmBuilder value: the provider type parameter, the phase type, the
\* marker type of a noise phase, the relay behaviour a websocket or behaviour
\* phase holds, the transports composed so far and the behaviour of BuildPhase.
MkBuilder(provider, phase, auth, relay, transport, behaviour) ==
    [provider |-> provider, phase |-> phase, auth |-> auth, relay |-> relay,
     transport |-> transport, behaviour |-> behaviour]

\* No SwarmBuilder has been made yet.
InitialPhase == MkBuilder("NoProviderSpecified", "Initial", "-", "-", << >>, "-")

\* No builder method has been called.
NoBuilderCall ==
    [chosen |-> "none", last |-> "none", res |-> "none", behaviour_ok |-> FALSE,
     executor |-> "none"]

\* No constructor of Protocol has been called.
NoCall == [op |-> "none", res |-> << "none" >>]

----
\* Connection::new, and no apply call has started at either end.
InitIdle ==
    /\ peer = PeerIdle
    /\ chan = << >>
    /\ opened = << >>
    /\ queue = << >>
    /\ rx_open = TRUE
    /\ parked = << >>
    /\ sent = << >>
    /\ delivered = << >>
    /\ outbound_fut = "None"
    /\ close_fut = "None"
    /\ peer_lock = "free"
    /\ create_res = "idle"
    /\ close_res = "idle"
    /\ och = << >>
    /\ create_calls = 0
    /\ close_calls = 0
    /\ out_ready = 0
    /\ close_ready = 0
    /\ conn_state = "Open"
    /\ faulted = FALSE
    /\ ret = Result("none", "none", 0, FALSE)
    /\ read_buf_cap = << >>
    /\ substreams = << >>
    /\ upgrade = << "Denied" >>
    /\ endpoint = "Inbound"
    /\ remote = {}
    /\ apply_pc = "idle"
    /\ offered = << >>
    /\ warned = << >>
    /\ select_calls = 0
    /\ select_res = "none"
    /\ negotiated = << >>
    /\ hs_log = << >>
    /\ fn_calls = [f |-> 0, g |-> 0]
    /\ apply_ret = << "none" >>
    /\ builder = InitialPhase
    /\ bcall = NoBuilderCall

Init ==
    /\ InitIdle
    /\ pname = << >>
    /\ pctor = NoCall
    /\ pround = << "none" >>

----
(***************************************************************************)
(* The incoming side: the on_data_channel callback and the on_open handler *)
(* it installs on every incoming data channel.                             *)
(***************************************************************************)

\* The callback runs for a data channel the remote opened: it clones the
\* Sender (a clone is never parked) and installs the on_open handler.
OnDataChannel(limit) ==
    /\ Len(chan) < limit
    /\ chan' = Append(chan, "registered")
    /\ UNCHANGED << opened, queue, rx_open, parked, sent, delivered >>
    /\ UNCHANGED << outbound_vars, close_vars, peer_lock, faulted, ret, hint_vars >>
    /\ UNCHANGED << apply_vars, pair_vars, proto_vars, builder_vars >>

\* The channel signals open: its handler starts and awaits detach.
OnOpen(c) ==
    /\ chan[c] = "registered"
    /\ chan' = [chan EXCEPT ![c] = "detaching"]
    /\ opened' = Append(opened, c)
    /\ UNCHANGED << queue, rx_open, parked, sent, delivered >>
    /\ UNCHANGED << outbound_vars, close_vars, peer_lock, faulted, ret, hint_vars >>
    /\ UNCHANGED << apply_vars, pair_vars, proto_vars, builder_vars >>

\* A try_send that does not look at the receiver's closed flag.
TrySendIgnoreClosed(isParked, isOpen) == IF isParked THEN "Full" ELSE "Ok"

\* Sender::try_send of one clone: poll_unparked, then inc_num_messages.
TrySendResult(isParked, isOpen) ==
    IF isParked THEN "Full"
    ELSE IF ~isOpen THEN "Disconnected"
    ELSE "Ok"

\* do_send_b: the sender parks when the message count exceeds the buffer.
ShouldPark(numMessages) == numMessages > MAX_DATA_CHANNELS_IN_FLIGHT

\* A buffer that takes the channel whatever try_send answered.
EnqueueAlways(q, c, res) == Append(q, c)

\* The buffer after try_send of channel c ended with res.
Enqueue(q, c, res) == IF res = "Ok" THEN Append(q, c) ELSE q

\* A handler that drops a refused channel without closing it.
AfterTrySendNoClose(res) == IF res = "Ok" THEN "sent" ELSE "dropped"

\* Where the handler of a channel ends after try_send: a refused channel is closed.
AfterTrySend(res) == IF res = "Ok" THEN "sent" ELSE "closed"

\* detach succeeded: try_send, and close the channel when the send is refused.
DetachOk(c) ==
    /\ chan[c] = "detaching"
    /\ LET res == TrySendResult(c \in Range(parked), rx_open) IN
        /\ queue' = Enqueue(queue, c, res)
        /\ sent' = IF res = "Ok" THEN Append(sent, c) ELSE sent
        /\ parked' = IF res = "Ok" /\ ShouldPark(Len(queue) + 1)
                        THEN Append(parked, c) ELSE parked
        /\ chan' = [chan EXCEPT ![c] = AfterTrySend(res)]
    /\ UNCHANGED << opened, rx_open, delivered >>
    /\ UNCHANGED << outbound_vars, close_vars, peer_lock, faulted, ret, hint_vars >>
    /\ UNCHANGED << apply_vars, pair_vars, proto_vars, builder_vars >>

\* A failed detach that also closes the receiver.
DetachErrPoisons(c) ==
    /\ chan[c] = "detaching"
    /\ chan' = [chan EXCEPT ![c] = "dropped"]
    /\ rx_open' = FALSE
    /\ UNCHANGED << opened, queue, parked, sent, delivered >>
    /\ UNCHANGED << outbound_vars, close_vars, peer_lock, faulted, ret, hint_vars >>
    /\ UNCHANGED << apply_vars, pair_vars, proto_vars, builder_vars >>

\* detach failed: the handler logs and drops the channel.
DetachErr(c) ==
    /\ chan[c] = "detaching"
    /\ chan' = [chan EXCEPT ![c] = "dropped"]
    /\ UNCHANGED << opened, queue, rx_open, parked, sent, delivered >>
    /\ UNCHANGED << outbound_vars, close_vars, peer_lock, faulted, ret, hint_vars >>
    /\ UNCHANGED << apply_vars, pair_vars, proto_vars, builder_vars >>

\* A receiver that takes the newest message.
RecvLast(q) == Len(q)

\* The index Receiver::poll_next takes from the buffer.
RecvIndex(q) == 1

RemoveAt(q, i) == [ j \in 1..(Len(q) - 1) |-> IF j < i THEN q[j] ELSE q[j + 1] ]

\* A receiver that reports the end of the stream whenever its buffer is empty.
RecvEmptyErr(isOpen) == "ErrInternal"

\* Receiver::poll_next on an empty buffer: Pending while open, None once closed.
RecvEmpty(isOpen) == IF isOpen THEN "Pending" ELSE "ErrInternal"

\* A constructor that leaves every substream at its default capacity.
NewSubstreamNoHint(dir, ch, hint) == [dir |-> dir, ch |-> ch, cap |-> << >>]

\* PollDataChannel::new, then set_read_buf_capacity when a hint is stored:
\* cap is << >> for the default capacity, << n >> for capacity n.
NewSubstream(dir, ch, hint) == [dir |-> dir, ch |-> ch, cap |-> hint]

\* Connection::poll_inbound
PollInbound ==
    /\ ~faulted /\ conn_state # "Dropped"
    /\ IF queue # << >>
          THEN LET i == RecvIndex(queue) IN
                /\ ret' = Result("poll_inbound", "Ok", queue[i], FALSE)
                /\ delivered' = Append(delivered, queue[i])
                /\ substreams' = Append(substreams, NewSubstream("in", queue[i], read_buf_cap))
                /\ queue' = RemoveAt(queue, i)
                /\ parked' = IF parked # << >> THEN Tail(parked) ELSE parked
          ELSE /\ ret' = Result("poll_inbound", RecvEmpty(rx_open), 0, FALSE)
               /\ UNCHANGED << delivered, queue, parked, substreams >>
    /\ UNCHANGED << chan, opened, rx_open, sent, read_buf_cap >>
    /\ UNCHANGED << outbound_vars, close_vars, peer_lock, faulted >>
    /\ UNCHANGED << apply_vars, pair_vars, proto_vars, builder_vars >>

----
(***************************************************************************)
(* The outbound side: the future stored in outbound_fut, the library's     *)
(* create_data_channel call and the on_open handler of the new channel.    *)
(***************************************************************************)

\* A slot that takes the new future on every call.
GetOrInsertAlways(slot, new) == new

\* Option::get_or_insert: the slot keeps the future it holds; an empty slot
\* takes the new one.
GetOrInsert(slot, new) == IF slot = "None" THEN new ELSE slot

\* The slot after the future in it returned Ready: neither poll_outbound nor
\* poll_close takes the finished future out of its slot.
SlotAfterReady(fut) == "done"

\* An acquisition that succeeds whoever holds the lock.
TryLockAlways(lock) == TRUE

\* FutMutex::lock().await polled once: the guard is handed out only when no
\* other future holds the lock.
TryLock(lock) == lock = "free"

\* The StdMutex guard `inner` is taken in the first statement of
\* poll_outbound and of poll_close and lives to the end of the call, so it is
\* held while the call polls the stored future.
InnerHeldAtPoll(op) == op \in {"poll_outbound", "poll_close"}

\* The stored future stands at peer_conn.lock().await: polling it tries to
\* acquire the async lock.
AtAsyncLock(slot) == GetOrInsert(slot, "lock") = "lock"

\* An outbound future that keeps the guard while it waits for the open signal.
LockHeldAcrossOpen(r) == IF r = "err" THEN "free" ELSE "outbound"

\* The async lock once create_data_channel stands at r: the guard is dropped
\* when the call returned, by drop(peer_conn) on Ok and by the early return
\* on Err.
LockAfterCreate(r) == IF r = "running" THEN "outbound" ELSE "free"

\* The outbound future once create_data_channel has been called and its
\* call stands at r: it stays suspended in the call, fails with WebRTC(e),
\* or registers the open handler of the new channel and awaits the one-shot.
OutboundCreate(r, calls) ==
    /\ create_calls' = calls
    /\ \/ /\ r = "running"
          /\ outbound_fut' = "create"
          /\ peer_lock' = LockAfterCreate(r)
          /\ create_res' = "running"
          /\ ret' = Result("poll_outbound", "Pending", 0, outbound_fut # "None")
          /\ UNCHANGED << och, out_ready >>
       \/ /\ r = "err"
          /\ outbound_fut' = SlotAfterReady("create")
          /\ peer_lock' = LockAfterCreate(r)
          /\ create_res' = "idle"
          /\ ret' = Result("poll_outbound", "ErrWebRTC", 0, outbound_fut # "None")
          /\ out_ready' = out_ready + 1
          /\ UNCHANGED och
       \/ /\ r = "ok"
          /\ outbound_fut' = "open"
          /\ peer_lock' = LockAfterCreate(r)
          /\ create_res' = "idle"
          /\ och' = Append(och, "registered")
          /\ ret' = Result("poll_outbound", "Pending", 0, outbound_fut # "None")
          /\ UNCHANGED out_ready

\* A one-shot receiver that yields the channel as soon as it has opened.
OneshotEager(handler) ==
    IF handler \in {"detaching", "sent"} THEN "Ok"
    ELSE IF handler \in {"dropped", "handler_dropped"} THEN "ErrInternal"
    ELSE "Pending"

\* A one-shot receiver that keeps waiting when its sender is dropped.
OneshotIgnoresDrop(handler) == IF handler = "sent" THEN "Ok" ELSE "Pending"

\* What the one-shot receiver yields for the state of the channel's handler.
OneshotPoll(handler) ==
    IF handler = "sent" THEN "Ok"
    ELSE IF handler \in {"dropped", "handler_dropped"} THEN "ErrInternal"
    ELSE "Pending"

\* Connection::poll_outbound
PollOutbound ==
    /\ ~faulted /\ conn_state # "Dropped"
    /\ LET fut == GetOrInsert(outbound_fut, "lock") IN
        \/ /\ fut = "done"                   \* a finished async block is polled again
           /\ faulted' = TRUE
           /\ outbound_fut' = fut
           /\ ret' = Result("poll_outbound", "Panic", 0, outbound_fut # "None")
           /\ UNCHANGED << create_res, och, create_calls, out_ready, peer_lock,
                           substreams >>
        \/ /\ fut = "lock" /\ ~TryLock(peer_lock)
           /\ outbound_fut' = fut
           /\ ret' = Result("poll_outbound", "Pending", 0, outbound_fut # "None")
           /\ UNCHANGED << create_res, och, create_calls, out_ready, peer_lock,
                           faulted, substreams >>
        \/ /\ fut = "lock" /\ TryLock(peer_lock) /\ create_calls < MaxOutbound
           /\ \E r \in {"running", "ok", "err"} : OutboundCreate(r, create_calls + 1)
           /\ UNCHANGED << faulted, substreams >>
        \/ /\ fut = "create"
           /\ OutboundCreate(create_res, create_calls)
           /\ UNCHANGED << faulted, substreams >>
        \/ /\ fut = "open"
           /\ LET r == OneshotPoll(och[Len(och)]) IN
               /\ ret' = Result("poll_outbound", r, IF r = "Ok" THEN Len(och) ELSE 0,
                                outbound_fut # "None")
               /\ substreams' = IF r = "Ok"
                    THEN Append(substreams, NewSubstream("out", Len(och), read_buf_cap))
                    ELSE substreams
               /\ outbound_fut' = IF r = "Pending" THEN fut ELSE SlotAfterReady(fut)
               /\ out_ready' = IF r = "Pending" THEN out_ready ELSE out_ready + 1
           /\ UNCHANGED << create_res, och, create_calls, peer_lock, faulted >>
    /\ UNCHANGED << inbound_vars, close_vars, read_buf_cap >>
    /\ UNCHANGED << apply_vars, pair_vars, proto_vars, builder_vars >>

\* The library finishes the create_data_channel call.
CreateReturns(r) ==
    /\ create_res = "running"
    /\ create_res' = r
    /\ UNCHANGED << outbound_fut, och, create_calls, out_ready >>
    /\ UNCHANGED << inbound_vars, close_vars, peer_lock, faulted, ret, hint_vars >>
    /\ UNCHANGED << apply_vars, pair_vars, proto_vars, builder_vars >>

\* A one-shot whose send succeeds although its receiver is gone.
ReceiverAliveAlways(i) == TRUE

\* The one-shot receiver of outbound channel i is still held by the future.
ReceiverAlive(i) == outbound_fut = "open" /\ i = Len(och)

\* register_data_channel_open_handler: the outbound channel signals open.
OutOnOpen(i) ==
    /\ och[i] = "registered"
    /\ och' = [och EXCEPT ![i] = "detaching"]
    /\ UNCHANGED << outbound_fut, create_res, create_calls, out_ready >>
    /\ UNCHANGED << inbound_vars, close_vars, peer_lock, faulted, ret, hint_vars >>
    /\ UNCHANGED << apply_vars, pair_vars, proto_vars, builder_vars >>

\* detach succeeded: send on the one-shot; close the channel when the
\* receiver is gone.
OutDetachOk(i) ==
    /\ och[i] = "detaching"
    /\ och' = [och EXCEPT ![i] = IF ReceiverAlive(i) THEN "sent" ELSE "closed"]
    /\ UNCHANGED << outbound_fut, create_res, create_calls, out_ready >>
    /\ UNCHANGED << inbound_vars, close_vars, peer_lock, faulted, ret, hint_vars >>
    /\ UNCHANGED << apply_vars, pair_vars, proto_vars, builder_vars >>

\* detach failed: the handler ends and drops the one-shot sender.
OutDetachErr(i) ==
    /\ och[i] = "detaching"
    /\ och' = [och EXCEPT ![i] = "dropped"]
    /\ UNCHANGED << outbound_fut, create_res, create_calls, out_ready >>
    /\ UNCHANGED << inbound_vars, close_vars, peer_lock, faulted, ret, hint_vars >>
    /\ UNCHANGED << apply_vars, pair_vars, proto_vars, builder_vars >>

\* The library drops the open handler (and the sender in it) before the
\* channel opened.
OutHandlerDropped(i) ==
    /\ och[i] = "registered"
    /\ och' = [och EXCEPT ![i] = "handler_dropped"]
    /\ UNCHANGED << outbound_fut, create_res, create_calls, out_ready >>
    /\ UNCHANGED << inbound_vars, close_vars, peer_lock, faulted, ret, hint_vars >>
    /\ UNCHANGED << apply_vars, pair_vars, proto_vars, builder_vars >>

----
(***************************************************************************)
(* Closing: the future stored in close_fut and the library's close call.   *)
(***************************************************************************)

\* A poll_close that closes the receiver whatever the close future returned.
RxClosedAlways(r, isOpen) == FALSE

\* A poll_close that leaves the receiver open.
RxLeftOpen(r, isOpen) == isOpen

\* The receiver's open flag after the close future resolved with r:
\* Receiver::close on Ok.
RxAfterClose(r, isOpen) == IF r = "ok" THEN FALSE ELSE isOpen

\* Open -> Closing at the first poll_close call.
Closing(state) == IF state = "Open" THEN "Closing" ELSE state

\* The close future once RTCPeerConnection::close has been called and its
\* call stands at r.
CloseCall(r, calls) ==
    /\ close_calls' = calls
    /\ \/ /\ r = "running"
          /\ close_fut' = "close"
          /\ peer_lock' = "close"
          /\ close_res' = "running"
          /\ conn_state' = Closing(conn_state)
          /\ ret' = Result("poll_close", "Pending", 0, close_fut # "None")
          /\ UNCHANGED << close_ready, rx_open, parked >>
       \/ /\ r = "err"
          /\ close_fut' = SlotAfterReady("close")
          /\ peer_lock' = "free"
          /\ close_res' = "idle"
          /\ conn_state' = Closing(conn_state)
          /\ ret' = Result("poll_close", "ErrWebRTC", 0, close_fut # "None")
          /\ close_ready' = close_ready + 1
          /\ rx_open' = RxAfterClose(r, rx_open)
          /\ UNCHANGED parked
       \/ /\ r = "ok"
          /\ close_fut' = SlotAfterReady("close")
          /\ peer_lock' = "free"
          /\ close_res' = "idle"
          /\ rx_open' = RxAfterClose(r, rx_open)
          /\ parked' = << >>
          /\ conn_state' = "Closed"
          /\ ret' = Result("poll_close", "Ok", 0, close_fut # "None")
          /\ close_ready' = close_ready + 1

\* Connection::poll_close
PollClose ==
    /\ ~faulted /\ conn_state # "Dropped"
    /\ LET fut == GetOrInsert(close_fut, "lock") IN
        \/ /\ fut = "done"                   \* a finished async block is polled again
           /\ faulted' = TRUE
           /\ close_fut' = fut
           /\ ret' = Result("poll_close", "Panic", 0, close_fut # "None")
           /\ UNCHANGED << close_res, close_calls, close_ready, conn_state,
                           peer_lock, rx_open, parked >>
        \/ /\ fut = "lock" /\ ~TryLock(peer_lock)
           /\ close_fut' = fut
           /\ conn_state' = Closing(conn_state)
           /\ ret' = Result("poll_close", "Pending", 0, close_fut # "None")
           /\ UNCHANGED << close_res, close_calls, close_ready, peer_lock,
                           rx_open, parked, faulted >>
        \/ /\ fut = "lock" /\ TryLock(peer_lock)
           /\ \E r \in {"running", "ok", "err"} : CloseCall(r, close_calls + 1)
           /\ UNCHANGED faulted
        \/ /\ fut = "close"
           /\ CloseCall(close_res, close_calls)
           /\ UNCHANGED faulted
    /\ UNCHANGED << chan, opened, queue, sent, delivered, outbound_vars, hint_vars >>
    /\ UNCHANGED << apply_vars, pair_vars, proto_vars, builder_vars >>

\* The library finishes the RTCPeerConnection::close call.
CloseReturns(r) ==
    /\ close_res = "running"
    /\ close_res' = r
    /\ UNCHANGED << close_fut, close_calls, close_ready, conn_state >>
    /\ UNCHANGED << inbound_vars, outbound_vars, peer_lock, faulted, ret, hint_vars >>
    /\ UNCHANGED << apply_vars, pair_vars, proto_vars, builder_vars >>

\* The Connection is dropped, and with it the receiver of the mpsc channel,
\* the channels buffered in it and the two stored futures: the one-shot
\* receiver inside the outbound future is gone, a future that held the async
\* lock releases it, and the library call it was suspended in is cancelled.
DropConnection ==
    /\ conn_state # "Dropped"
    /\ conn_state' = "Dropped"
    /\ rx_open' = FALSE
    /\ queue' = << >>
    /\ parked' = << >>
    /\ outbound_fut' = "dropped"
    /\ close_fut' = "dropped"
    /\ peer_lock' = "free"
    /\ create_res' = "idle"
    /\ close_res' = "idle"
    /\ UNCHANGED << chan, opened, sent, delivered, och, create_calls, close_calls,
                    out_ready, close_ready, faulted, ret, hint_vars >>
    /\ UNCHANGED << apply_vars, pair_vars, proto_vars, builder_vars >>

----
\* An address change that is reported once the connection is closed.
AddressChangeWhenClosed(state) == IF state = "Closed" THEN "Ok" ELSE "Pending"

\* What poll_address_change returns in a state of the connection.
AddressChange(state) == "Pending"

\* Connection::poll_address_change: it takes no lock and touches no field.
PollAddressChange ==
    /\ ~faulted /\ conn_state # "Dropped"
    /\ ret' = Result("poll_address_change", AddressChange(conn_state), 0, FALSE)
    /\ UNCHANGED << inbound_vars, outbound_vars, close_vars, peer_lock, faulted,
                    hint_vars >>
    /\ UNCHANGED << apply_vars, pair_vars, proto_vars, builder_vars >>

\* Connection::set_data_channels_read_buf_capacity
SetReadBufCapacity(cap) ==
    /\ ~faulted /\ conn_state # "Dropped"
    /\ read_buf_cap' = << cap >>
    /\ UNCHANGED << inbound_vars, outbound_vars, close_vars, peer_lock, faulted,
                    ret, substreams >>
    /\ UNCHANGED << apply_vars, pair_vars, proto_vars, builder_vars >>

----
Next ==
    \/ OnDataChannel(MaxChannels)
    \/ \E c \in DOMAIN chan : OnOpen(c) \/ DetachOk(c) \/ DetachErr(c)
    \/ PollInbound
    \/ PollOutbound
    \/ \E r \in {"ok", "err"} : CreateReturns(r)
    \/ \E i \in DOMAIN och :
          OutOnOpen(i) \/ OutDetachOk(i) \/ OutDetachErr(i) \/ OutHandlerDropped(i)
    \/ PollClose
    \/ \E r \in {"ok", "err"} : CloseReturns(r)
    \/ PollAddressChange

Spec == Init /\ [][Next]_vars

\* A connection its owner may drop at any time.
NextDrop ==
    \/ Next
    \/ DropConnection

SpecDrop == Init /\ [][NextDrop]_vars

\* A caller that stops polling poll_outbound once it has called poll_close.
NextClosing ==
    \/ OnDataChannel(MaxChannels)
    \/ \E c \in DOMAIN chan : OnOpen(c) \/ DetachOk(c) \/ DetachErr(c)
    \/ PollInbound
    \/ close_fut = "None" /\ PollOutbound
    \/ \E r \in {"ok", "err"} : CreateReturns(r)
    \/ \E i \in DOMAIN och :
          OutOnOpen(i) \/ OutDetachOk(i) \/ OutDetachErr(i) \/ OutHandlerDropped(i)
    \/ PollClose
    \/ \E r \in {"ok", "err"} : CloseReturns(r)

\* That caller polls poll_close again after every wakeup, and the library's
\* close and create_data_channel calls terminate; nothing obliges the caller
\* to poll poll_inbound.
SpecCloseFair ==
    /\ Init /\ [][NextClosing]_vars
    /\ WF_vars(PollClose)
    /\ WF_vars(\E r \in {"ok", "err"} : CloseReturns(r))
    /\ WF_vars(\E r \in {"ok", "err"} : CreateReturns(r))

\* An open connection whose caller also sets the read-buffer capacity: every
\* step that produces a substream, and none of poll_close.
NextCap ==
    \/ OnDataChannel(MaxChannels)
    \/ \E c \in DOMAIN chan : OnOpen(c) \/ DetachOk(c) \/ DetachErr(c)
    \/ PollInbound
    \/ PollOutbound
    \/ \E r \in {"ok", "err"} : CreateReturns(r)
    \/ \E i \in DOMAIN och :
          OutOnOpen(i) \/ OutDetachOk(i) \/ OutDetachErr(i) \/ OutHandlerDropped(i)
    \/ \E cap \in 1..MaxCap : SetReadBufCapacity(cap)

SpecCap == Init /\ [][NextCap]_vars

----
(***************************************************************************)
(* The burst of scenario S6: the remote opens MaxFlood data channels one   *)
(* after the other, each handler running to its end before the next        *)
(* channel arrives; poll_inbound may be called at any time.                *)
(***************************************************************************)
HandlersIdle == \A c \in DOMAIN chan : chan[c] \notin {"registered", "detaching"}

FloodArrival == HandlersIdle /\ OnDataChannel(MaxFlood)

FloodNext ==
    \/ FloodArrival
    \/ \E c \in DOMAIN chan : OnOpen(c) \/ DetachOk(c)
    \/ PollInbound

SpecFlood == Init /\ [][FloodNext]_vars

----
(***************************************************************************)
(* The upgrade pipeline of core/src/upgrade.rs: an upgrade enumerates the  *)
(* protocols it supports, apply has multistream-select negotiate one of    *)
(* them with the remote and then runs the upgrade's handshake on it.       *)
(*                                                                         *)
(* A protocol name is a sequence of bytes (one-character strings here), a  *)
(* Protocol is the record around a name that passed validation.  An        *)
(* upgrade is a tuple whose first element is its kind; outputs are         *)
(* << "T", n >>, errors << "E", n >>, and every wrapper (Left, Right, a    *)
(* mapped closure) is a pair of its tag and the value it wraps.            *)
(***************************************************************************)
NameA == << "/", "a" >>
NameB == << "/", "b" >>
NameBad == << "b", "a", "d" >>          \* no leading '/'
NameRaw == << "/", "0xFF" >>            \* a byte that is not UTF-8
\* The names a remote may accept: it is free to accept a malformed one.
RemoteNames == {NameA, NameB, NameBad}

IsUtf8(name) == \A i \in DOMAIN name : name[i] # "0xFF"

\* multistream_select::Protocol: a name, borrowed from a literal ("static")
\* or owned; as_str views the name, equality is on the bytes of the name.
MsProtocol(variant, name) == [variant |-> variant, name |-> name]
MsAsStr(inner) == inner.name
MsEq(a, b) == a.name = b.name

\* multistream_select::Protocol::from_static: << >> for a panic.
MsFromStatic(s) ==
    IF Len(s) >= 1 /\ s[1] = "/" THEN << MsProtocol("static", s) >> ELSE << >>

\* multistream_select::Protocol::try_from_owned
MsTryFromOwned(s) ==
    IF Len(s) >= 1 /\ s[1] = "/" /\ Len(s) <= MAX_PROTOCOL_LEN
        THEN << "Ok", MsProtocol("owned", s) >>
        ELSE << "Err", "InvalidProtocol" >>

\* multistream_select::Protocol::try_from(&[u8]): << >> for Err, << name >>
\* for Ok of the validated name.
ProtocolTryFrom(name) ==
    IF IsUtf8(name) /\ Len(name) >= 1 /\ name[1] = "/" /\ Len(name) <= MAX_PROTOCOL_LEN
        THEN << MsProtocol("owned", name) >> ELSE << >>

\* Protocol::from_inner and Protocol::as_str
ProtocolFromInner(inner) == [inner |-> inner]
AsStr(p) == MsAsStr(p.inner)

\* An equality that tells a borrowed name from an owned one.
ProtocolEqVariant(p, q) == p.inner = q.inner

\* derive(PartialEq) of Protocol: the equality of the inner protocols.
ProtocolEq(p, q) == MsEq(p.inner, q.inner)

\* A from_static that wraps whatever it is given.
FromStaticUnchecked(s) == << "Ok", ProtocolFromInner(MsProtocol("static", s)) >>

\* Protocol::from_static: << "Panic" >> or << "Ok", p >>.
FromStatic(s) ==
    LET r == MsFromStatic(s) IN
    IF r = << >> THEN << "Panic" >> ELSE << "Ok", [inner |-> r[1]] >>

\* A try_from_owned that wraps whatever it is given.
TryFromOwnedUnchecked(s) == << "Ok", ProtocolFromInner(MsProtocol("owned", s)) >>

\* Protocol::try_from_owned: the error of the inner constructor is wrapped in
\* InvalidProtocol, its protocol in Protocol.
TryFromOwned(s) ==
    LET r == MsTryFromOwned(s) IN
    IF r[1] = "Ok" THEN << "Ok", [inner |-> r[2]] >>
    ELSE << "Err", << "InvalidProtocol", r[2] >> >>

\* A filter that lets every enumerated name through.
FilterKeepsMalformed(name) == << ProtocolFromInner(MsProtocol("owned", name)) >>

\* filter_non_utf8_protocols: << >> for None, << p >> for Some(p).
FilterNonUtf8Protocols(name) ==
    LET r == ProtocolTryFrom(name) IN
    IF r # << >> THEN << ProtocolFromInner(r[1]) >> ELSE << >>

\* The upgrades: what the constructors of the combinators build.
ReadyUpgrade(p, t) == << "Ready", p, t >>
PendingUpgrade(p) == << "Pending", p >>
DeniedUpgrade == << "Denied" >>
\* A hand-written upgrade: its UpgradeInfo enumerates names, its handshake
\* ends with hs ("ok" or "err") and the value val.
CustomUpgrade(names, hs, val) == << "Custom", names, hs, val >>
OptionalUpgrade(inner) == << "Optional", inner >>
SelectUpgrade(u, v) == << "Select", u, v >>
\* InboundUpgradeExt::map_inbound, OutboundUpgradeExt::map_outbound
MapUpgrade(u, f) == << "Map", u, f >>
\* InboundUpgradeExt::map_inbound_err, OutboundUpgradeExt::map_outbound_err
MapUpgradeErr(u, g) == << "MapErr", u, g >>

\* A closure that hands its argument back.
CallFnIdentity(f, val) == val

\* The closures handed to Map and MapErr: each wraps its argument.
CallFn(f, val) == << f, val >>

\* An Optional that never holds an upgrade.
IsSomeNever(opt) == FALSE

\* Option::is_some of the upgrade inside Optional: << >> is None.
IsSome(opt) == opt # << >>

\* A Select that enumerates the right side first.
SelectInfoRightFirst(left, right) ==
    right \o SelectSeq(left, LAMBDA n : n \notin Range(right))

\* What Select enumerates: the names of the left side, then the names of the
\* right side the left side does not enumerate.
SelectInfo(left, right) ==
    left \o SelectSeq(right, LAMBDA n : n \notin Range(left))

\* A Select that hands a protocol both sides offer to the right side.
SelectSideRightBiased(offersLeft, offersRight) ==
    IF offersRight THEN "Right" ELSE "Left"

\* The side of Select that runs the handshake of the negotiated protocol.
SelectSide(offersLeft, offersRight) == IF offersLeft THEN "Left" ELSE "Right"

\* UpgradeInfo::protocol_info: the names an upgrade enumerates, in order.
RECURSIVE ProtocolInfo(_)
ProtocolInfo(U) ==
    IF U[1] \in {"Ready", "Pending"} THEN << U[2] >>
    ELSE IF U[1] = "Custom" THEN U[2]
    ELSE IF U[1] = "Optional"
        THEN IF IsSome(U[2]) THEN ProtocolInfo(U[2][1]) ELSE << >>
    ELSE IF U[1] = "Select" THEN SelectInfo(ProtocolInfo(U[2]), ProtocolInfo(U[3]))
    ELSE IF U[1] \in {"Map", "MapErr"} THEN ProtocolInfo(U[2])
    ELSE << >>

\* Iterator::filter_map
RECURSIVE FilterMap(_)
FilterMap(names) ==
    IF names = << >> THEN << >>
    ELSE FilterNonUtf8Protocols(Head(names)) \o FilterMap(Tail(names))

\* An enumeration that yields every protocol once.
RECURSIVE Dedup(_)
Dedup(ps) ==
    IF ps = << >> THEN << >>
    ELSE << Head(ps) >> \o SelectSeq(Dedup(Tail(ps)), LAMBDA q : q # Head(ps))

ToProtocolsIterDedup(U) == Dedup(FilterMap(ProtocolInfo(U)))

\* ToProtocolsIter::to_protocols_iter of the blanket impl for UpgradeInfo
ToProtocolsIter(U) == FilterMap(ProtocolInfo(U))

\* A filter that drops malformed names without a word.
DiagnosticsSilent(U) == << >>

\* The names log::warn! is called for.
Diagnostics(U) ==
    SelectSeq(ProtocolInfo(U), LAMBDA n : FilterNonUtf8Protocols(n) = << >>)

\* Whether upgrade U offers protocol p.
Offers(U, p) == p \in Range(ToProtocolsIter(U))


\* The leaf upgrades whose handshake apply invokes for protocol p, through
\* the dispatch of the combinators around them.
RECURSIVE Invoked(_, _)
Invoked(U, p) ==
    IF U[1] \in {"Ready", "Pending", "Custom"} THEN << [upgrade |-> U, protocol |-> p] >>
    ELSE IF U[1] = "Optional"
        THEN IF IsSome(U[2]) THEN Invoked(U[2][1], p) ELSE << >>
    ELSE IF U[1] = "Select"
        THEN IF SelectSide(Offers(U[2], p), Offers(U[3], p)) = "Left"
            THEN Invoked(U[2], p) ELSE Invoked(U[3], p)
    ELSE IF U[1] \in {"Map", "MapErr"} THEN Invoked(U[2], p)
    ELSE << >>

HandshakeResult(status, val, f, g) == [status |-> status, val |-> val, f |-> f, g |-> g]

\* The handshake of upgrade U on protocol p: how it ends ("ok", "err", or
\* "pending" for a future that never completes), the value it ends with, and
\* how often the closures of Map (f) and MapErr (g) were applied.
RECURSIVE Handshake(_, _)
Handshake(U, p) ==
    IF U[1] = "Ready" THEN HandshakeResult("ok", U[3], 0, 0)
    ELSE IF U[1] = "Custom" THEN HandshakeResult(U[3], U[4], 0, 0)
    ELSE IF U[1] = "Optional" /\ IsSome(U[2]) THEN Handshake(U[2][1], p)
    ELSE IF U[1] = "Select"
        THEN IF SelectSide(Offers(U[2], p), Offers(U[3], p)) = "Left"
            THEN LET l == Handshake(U[2], p) IN [l EXCEPT !.val = << "Left", @ >>]
            ELSE LET r == Handshake(U[3], p) IN [r EXCEPT !.val = << "Right", @ >>]
    ELSE IF U[1] = "Map"
        THEN LET r == Handshake(U[2], p) IN
             IF r.status = "ok"
                THEN [r EXCEPT !.val = CallFn(U[3], @), !.f = @ + 1] ELSE r
    ELSE IF U[1] = "MapErr"
        THEN LET r == Handshake(U[2], p) IN
             IF r.status = "err"
                THEN [r EXCEPT !.val = CallFn(U[3], @), !.g = @ + 1] ELSE r
    ELSE HandshakeResult("pending", << >>, 0, 0)

\* The leaf upgrades, and the upgrades with at most d combinators around one.
Leaves ==
    { ReadyUpgrade(NameA, << "T", 1 >>),
      ReadyUpgrade(NameB, << "T", 2 >>),
      PendingUpgrade(NameA),
      DeniedUpgrade,
      OptionalUpgrade(<< >>),
      CustomUpgrade(<< NameA, NameB >>, "ok", << "T", 3 >>),
      CustomUpgrade(<< NameB, NameBad, NameA, NameRaw, NameB >>, "err", << "E", 4 >>) }

RECURSIVE Upgrades(_)
Upgrades(d) ==
    IF d = 0 THEN Leaves
    ELSE LET S == Upgrades(d - 1) IN
         S \cup { SelectUpgrade(u, v) : u \in S, v \in S }
           \cup { MapUpgrade(u, "f") : u \in S }
           \cup { MapUpgradeErr(u, "g") : u \in S }
           \cup { OptionalUpgrade(<< u >>) : u \in S }

AllUpgrades == Upgrades(MaxDepth)

\* The offered protocols the remote accepts, by position.
Accepted(ps, acc) == { i \in DOMAIN ps : AsStr(ps[i]) \in acc }

\* The negotiation picks the first offered protocol the remote accepts.
FirstAccepted(ps, acc) ==
    LET ok == Accepted(ps, acc) IN ps[CHOOSE i \in ok : \A j \in ok : i <= j]

\* A driver that reports a failed handshake as a failed negotiation.
UpgradeOutcomeAllSelect(h) ==
    IF h.status = "ok" THEN << "Output", h.val >> ELSE << "Select", h.val >>

\* What apply returns once the handshake ended with h.
UpgradeOutcome(h) ==
    IF h.status = "ok" THEN << "Output", h.val >> ELSE << "Apply", h.val >>

\* apply_inbound / apply_outbound: build the list of offered protocols and
\* hand it to multistream-select in the listener or the dialer role.
Apply(U, ep, acc) ==
    /\ apply_pc = "idle"
    /\ upgrade' = U
    /\ endpoint' = ep
    /\ remote' = acc
    /\ offered' = ToProtocolsIter(U)
    /\ warned' = Diagnostics(U)
    /\ select_calls' = select_calls + 1
    /\ apply_pc' = "negotiating"
    /\ UNCHANGED << select_res, negotiated, hs_log, fn_calls, apply_ret >>
    /\ UNCHANGED << conn_vars, pair_vars, proto_vars, builder_vars >>

\* multistream-select ends with a protocol: the driver invokes the handshake.
SelectOk ==
    /\ apply_pc = "negotiating"
    /\ Accepted(offered, remote) # {}
    /\ LET p == FirstAccepted(offered, remote) IN
        /\ negotiated' = << p >>
        /\ hs_log' = hs_log \o Invoked(upgrade, p)
    /\ select_res' = "Ok"
    /\ apply_pc' = "handshake"
    /\ UNCHANGED << upgrade, endpoint, remote, offered, warned, select_calls,
                    fn_calls, apply_ret >>
    /\ UNCHANGED << conn_vars, pair_vars, proto_vars, builder_vars >>

\* multistream-select fails: no common protocol, or a framing error.
SelectFails(e) ==
    /\ apply_pc = "negotiating"
    /\ e = "NoProtocol" => Accepted(offered, remote) = {}
    /\ select_res' = e
    /\ apply_ret' = << "Select", e >>
    /\ apply_pc' = "done"
    /\ UNCHANGED << upgrade, endpoint, remote, offered, warned, select_calls,
                    negotiated, hs_log, fn_calls >>
    /\ UNCHANGED << conn_vars, pair_vars, proto_vars, builder_vars >>

\* A handshake future that is ready whenever it is polled.
CompletesAlways(h) == TRUE

\* Whether the handshake future h ever returns Ready to the driver's poll.
Completes(h) == h.status # "pending"

\* The handshake future completes and apply returns.
HandshakeDone ==
    /\ apply_pc = "handshake"
    /\ LET h == Handshake(upgrade, negotiated[1]) IN
        /\ Completes(h)
        /\ apply_ret' = UpgradeOutcome(h)
        /\ fn_calls' = [f |-> h.f, g |-> h.g]
    /\ apply_pc' = "done"
    /\ UNCHANGED << upgrade, endpoint, remote, offered, warned, select_calls,
                    select_res, negotiated, hs_log >>
    /\ UNCHANGED << conn_vars, pair_vars, proto_vars, builder_vars >>

NextUpgrade ==
    \/ /\ apply_pc = "idle"
       /\ \E U \in AllUpgrades, ep \in {"Inbound", "Outbound"},
             acc \in SUBSET RemoteNames : Apply(U, ep, acc)
    \/ SelectOk
    \/ \E e \in {"NoProtocol", "ProtocolError"} : SelectFails(e)
    \/ HandshakeDone

SpecUpgrade == Init /\ [][NextUpgrade]_vars

----
(***************************************************************************)
(* Two apply calls on the two ends of one socket: apply_inbound at the     *)
(* listener, whose state is the one of the single apply call above, and    *)
(* apply_outbound at the dialer, whose state is the record peer.  The      *)
(* socket between them loses and garbles nothing.                          *)
(***************************************************************************)
PairUpgrades == Upgrades(MaxDepth - 1)

\* A negotiation in which the listener supports whatever the dialer proposes.
CommonAll(dial, listen) == dial

\* The protocols the dialer proposes that the listener supports too, in the
\* order the dialer proposes them.
Common(dial, listen) ==
    SelectSeq(dial, LAMBDA p : \E i \in DOMAIN listen : ProtocolEq(listen[i], p))

\* A negotiation that finds no common protocol whatever is offered.
NoOverlapAlways(common) == TRUE

\* The negotiation fails on both sides when no proposal is supported.
NoOverlap(common) == common = << >>

\* Both ends call apply: the listener with upgrade L, the dialer with D.
PairApply(L, D) ==
    /\ apply_pc = "idle" /\ peer.pc = "idle"
    /\ upgrade' = L
    /\ endpoint' = "Inbound"
    /\ remote' = { AsStr(p) : p \in Range(ToProtocolsIter(D)) }
    /\ offered' = ToProtocolsIter(L)
    /\ warned' = Diagnostics(L)
    /\ select_calls' = select_calls + 1
    /\ apply_pc' = "negotiating"
    /\ peer' = [upgrade |-> D, pc |-> "negotiating", offered |-> ToProtocolsIter(D),
                negotiated |-> << >>, hs_log |-> << >>, ret |-> << "none" >>]
    /\ UNCHANGED << select_res, negotiated, hs_log, fn_calls, apply_ret >>
    /\ UNCHANGED << conn_vars, proto_vars, builder_vars >>

\* multistream-select runs between the two ends: both fail with the
\* no-protocol error, or both get the dialer's first proposal the listener
\* supports and invoke their handshake on it.
PairSelect ==
    /\ apply_pc = "negotiating" /\ peer.pc = "negotiating"
    /\ LET common == Common(peer.offered, offered) IN
        IF NoOverlap(common)
            THEN /\ select_res' = "NoProtocol"
                 /\ apply_ret' = << "Select", "NoProtocol" >>
                 /\ apply_pc' = "done"
                 /\ peer' = [peer EXCEPT !.pc = "done",
                                         !.ret = << "Select", "NoProtocol" >>]
                 /\ UNCHANGED << negotiated, hs_log >>
            ELSE /\ select_res' = "Ok"
                 /\ negotiated' = << common[1] >>
                 /\ hs_log' = hs_log \o Invoked(upgrade, common[1])
                 /\ apply_pc' = "handshake"
                 /\ peer' = [peer EXCEPT !.pc = "handshake",
                                         !.negotiated = << common[1] >>,
                                         !.hs_log = Invoked(peer.upgrade, common[1])]
                 /\ UNCHANGED apply_ret
    /\ UNCHANGED << upgrade, endpoint, remote, offered, warned, select_calls, fn_calls >>
    /\ UNCHANGED << conn_vars, proto_vars, builder_vars >>

\* The dialer's handshake future completes and its apply returns.
PeerHandshakeDone ==
    /\ peer.pc = "handshake"
    /\ LET h == Handshake(peer.upgrade, peer.negotiated[1]) IN
        /\ Completes(h)
        /\ peer' = [peer EXCEPT !.pc = "done", !.ret = UpgradeOutcome(h)]
    /\ UNCHANGED << conn_vars, apply_vars, proto_vars, builder_vars >>

NextPair ==
    \/ /\ apply_pc = "idle"
       /\ \E L \in PairUpgrades, D \in PairUpgrades : PairApply(L, D)
    \/ PairSelect
    \/ HandshakeDone
    \/ PeerHandshakeDone

SpecPair == Init /\ [][NextPair]_vars

----
(***************************************************************************)
(* The constructors of Protocol, applied to one string: a name of up to    *)
(* MaxNameLen bytes that starts with '/' or with another character.        *)
(***************************************************************************)
MkName(first, n) == [i \in 1..n |-> IF i = 1 THEN first ELSE "x"]

NameInputs == { MkName(first, n) : first \in {"/", "b"}, n \in 0..MaxNameLen }

InitProtocol ==
    /\ InitIdle
    /\ pname \in NameInputs
    /\ pctor = NoCall
    /\ pround = << "none" >>

\* Protocol::from_static(pname)
FromStaticCall ==
    /\ pctor = NoCall
    /\ pctor' = [op |-> "from_static", res |-> FromStatic(pname)]
    /\ UNCHANGED << conn_vars, apply_vars, pair_vars, builder_vars, pname, pround >>

\* Protocol::try_from_owned(pname)
TryFromOwnedCall ==
    /\ pctor = NoCall
    /\ pctor' = [op |-> "try_from_owned", res |-> TryFromOwned(pname)]
    /\ UNCHANGED << conn_vars, apply_vars, pair_vars, builder_vars, pname, pround >>

\* Protocol::try_from_owned(p.as_str().to_owned()) for the protocol p a
\* constructor returned.
RoundTripCall ==
    /\ pctor.res[1] = "Ok"
    /\ pround = << "none" >>
    /\ pround' = TryFromOwned(AsStr(pctor.res[2]))
    /\ UNCHANGED << conn_vars, apply_vars, pair_vars, builder_vars, pname, pctor >>

NextProtocol == FromStaticCall \/ TryFromOwnedCall \/ RoundTripCall

SpecProtocol == InitProtocol /\ [][NextProtocol]_vars

----
(***************************************************************************)
(* Properties.                                                             *)
(***************************************************************************)
Ready == {"Ok", "ErrWebRTC", "ErrInternal"}

HandlerDone(c) == chan[c] \notin {"registered", "detaching"}

\* The position of x in the sequence s.
Pos(s, x) == CHOOSE i \in 1..Len(s) : s[i] = x

\* C1: when poll_outbound returns Ready (Ok or Err) the outbound slot is
\* cleared, so that a later poll_outbound starts a new open.
C1_OutboundSlotCleared ==
    (ret.op = "poll_outbound" /\ ret.res \in Ready) => outbound_fut = "None"

\* C2: when the close future resolves with an error, poll_close returns
\* Err(WebRTC) and leaves the close slot empty, so that close can be retried.
C2_CloseSlotEmptyAfterError ==
    (ret.op = "poll_close" /\ ret.res = "ErrWebRTC") => close_fut = "None"

\* C3: after poll_close returned Ready(Ok(())), a further poll_close call
\* returns Ok again or has no effect: it returns no error and does not fault.
C3_CloseIdempotent ==
    (conn_state = "Closed" /\ ret.op = "poll_close") =>
        (ret.res \in {"Ok", "Pending"} /\ ~faulted)

\* C4: at most one outbound-open future and one close future are in flight:
\* a create_data_channel call starts only after every earlier open returned
\* Ready, a close call only after every earlier close returned Ready, and a
\* poll that finds an unfinished future in its slot returns Pending.
C4_SingleFutureInFlight ==
    /\ create_calls <= out_ready + 1
    /\ close_calls <= close_ready + 1
    /\ (ret.op = "poll_outbound" /\ outbound_fut \in {"lock", "create", "open"})
          => ret.res = "Pending"
    /\ (ret.op = "poll_close" /\ close_fut \in {"lock", "close"})
          => ret.res = "Pending"

\* A poll_outbound call found the open pending, created nothing and returned
\* Pending, while the channel of the one open in flight is being detached.
C4_Witness ==
    /\ ret = Result("poll_outbound", "Pending", 0, TRUE)
    /\ outbound_fut = "open"
    /\ create_calls = 1 /\ out_ready = 0
    /\ och = << "detaching" >>

C6_QueueBounded == Len(queue) <= MAX_DATA_CHANNELS_IN_FLIGHT

\* C7 (as claimed): poll_inbound returns the substreams in the order in which
\* the open handlers of their channels fired.
C7_DeliveredInOpenOrder ==
    \A i, j \in 1..Len(delivered) :
        i < j => Pos(opened, delivered[i]) < Pos(opened, delivered[j])

\* C7 (amended): poll_inbound returns the substreams in the order in which
\* try_send enqueued them (the order in which the detach steps completed).
C7_DeliveredInSendOrder == sent = delivered \o queue

\* Two substreams were returned in the reverse of the order their open
\* handlers fired in.
C7_Witness == opened = << 1, 2 >> /\ delivered = << 2, 1 >>

\* C8: after poll_close returned Ok, a poll_inbound call returns a buffered
\* channel or, when none is left, Err(InternalError); the buffer only
\* shrinks, so the error comes after at most as many calls as channels were
\* buffered, and every later call returns it.
C8_InboundErrAfterClose ==
    /\ [][(conn_state = "Closed" /\ PollInbound) =>
            IF queue = << >>
               THEN ret'.res = "ErrInternal" /\ queue' = << >>
               ELSE ret'.res = "Ok" /\ Len(queue') = Len(queue) - 1]_vars
    /\ [][conn_state = "Closed" =>
            (conn_state' = "Closed" /\ Len(queue') <= Len(queue))]_vars

\* After the close, poll_inbound returned a channel and then InternalError.
C8_Witness ==
    /\ conn_state = "Closed"
    /\ ret = Result("poll_inbound", "ErrInternal", 0, FALSE)
    /\ delivered # << >>

\* C9 (as claimed): once poll_close has been called (Closing or Closed), no
\* incoming channel is enqueued any more.
C9_NoSendOnceClosing == [][conn_state # "Open" => sent' = sent]_vars

\* C9 (amended): once poll_close has returned Ok (Closed), no incoming
\* channel is enqueued any more.
C9_NoSendOnceClosed == [][conn_state = "Closed" => sent' = sent]_vars

\* A handler finished its detach after the close and its channel was refused.
C9_Witness ==
    conn_state = "Closed" /\ \E c \in DOMAIN chan : chan[c] = "closed"

C11_OutboundOutcome ==
    [][PollOutbound =>
        /\ ret'.res = "Ok" =>
              outbound_fut = "open" /\ och[Len(och)] = "sent" /\ ret'.ch = Len(och)
        /\ ret'.res = "ErrWebRTC" =>
              outbound_fut \in {"None", "lock", "create"} /\ och' = och
        /\ ret'.res = "ErrInternal" =>
              outbound_fut = "open" /\ och[Len(och)] \in {"dropped", "handler_dropped"}
        /\ (outbound_fut = "open" /\ och[Len(och)] \in {"dropped", "handler_dropped"})
              => ret'.res = "ErrInternal"
        /\ (outbound_fut = "create" /\ create_res = "err") => ret'.res = "ErrWebRTC"
    ]_vars

\* C11 witness: poll_outbound returned Err(InternalError) for a channel whose
\* detach failed.
C11_Witness ==
    /\ ret.op = "poll_outbound" /\ ret.res = "ErrInternal"
    /\ och # << >> /\ och[Len(och)] = "dropped"

\* C12: poll_address_change returns Pending whatever the state of the
\* connection, and a call changes no field of the connection.
C12_AddressChangePending ==
    /\ [](ret.op = "poll_address_change" => ret.res = "Pending")
    /\ [][PollAddressChange =>
            UNCHANGED << inbound_vars, outbound_vars, close_vars, peer_lock,
                         faulted, hint_vars >>]_vars

\* C12 witness: poll_address_change was called on a closed connection with a
\* channel still buffered.
C12_Witness ==
    /\ ret.op = "poll_address_change"
    /\ conn_state = "Closed"
    /\ queue # << >>

\* C13: setting the read-buffer capacity changes the stored hint only; a
\* substream returned afterwards by poll_inbound or poll_outbound carries the
\* hint stored at that moment, and the substreams returned earlier, the
\* buffered channels and the pending futures stay as they were.
C13_CapacityHint ==
    [][/\ read_buf_cap' # read_buf_cap =>
            /\ Len(read_buf_cap') = 1
            /\ UNCHANGED << inbound_vars, outbound_vars, close_vars, peer_lock,
                            faulted, ret, substreams >>
       /\ substreams' # substreams =>
            /\ Len(substreams') = Len(substreams) + 1
            /\ SubSeq(substreams', 1, Len(substreams)) = substreams
            /\ substreams'[Len(substreams')].cap = read_buf_cap
            /\ ret'.res = "Ok"
            /\ substreams'[Len(substreams')].ch = ret'.ch
    ]_vars

\* C13 witness: an inbound substream produced under capacity 1 kept it after
\* the capacity was set to 2, and an outbound substream produced then got 2.
C13_Witness ==
    /\ Len(substreams) = 2
    /\ substreams[1].dir = "in" /\ substreams[1].cap = << 1 >>
    /\ substreams[2].dir = "out" /\ substreams[2].cap = << 2 >>
    /\ read_buf_cap = << 2 >>

\* The well-formed names among names, in their order.
WellFormedNames(names) == SelectSeq(names, LAMBDA n : ProtocolTryFrom(n) # << >>)

\* How often x occurs in the sequence s.
Count(s, x) == Cardinality({i \in DOMAIN s : s[i] = x})

\* C14: apply returns UpgradeError::Select exactly when the negotiation
\* failed, UpgradeError::Apply(e) exactly when the negotiation succeeded and
\* the handshake failed with e, and Output(v) exactly when both succeeded with
\* v; it runs the negotiation once, invokes at most one handshake, and none
\* unless the negotiation succeeded.
C14_ErrorVariants ==
    /\ select_calls <= 1
    /\ Len(hs_log) <= 1
    /\ select_res # "Ok" => hs_log = << >>
    /\ apply_pc # "done" => apply_ret = << "none" >>
    /\ apply_pc = "done" =>
        /\ (apply_ret[1] = "Select") <=> (select_res \in {"NoProtocol", "ProtocolError"})
        /\ select_res = "Ok" =>
            LET h == Handshake(upgrade, negotiated[1]) IN
            /\ (apply_ret[1] = "Apply") <=> (h.status = "err")
            /\ (apply_ret[1] = "Output") <=> (h.status = "ok")
            /\ apply_ret[2] = h.val

\* C14 witness: the negotiation succeeded, the one handshake failed, and apply
\* returned Apply.
C14_Witness ==
    /\ apply_pc = "done"
    /\ select_res = "Ok"
    /\ Len(hs_log) = 1
    /\ apply_ret[1] = "Apply"

\* C15: every handshake apply invokes gets a protocol that is a well-formed
\* name of the upgrade's enumeration, and of the enumeration of the upgrade
\* whose handshake it is; an apply that returned without a handshake failed
\* with Select.
C15_HandshakeOnEnumerated ==
    /\ \A i \in DOMAIN hs_log :
        LET name == AsStr(hs_log[i].protocol) IN
        /\ name \in Range(ProtocolInfo(upgrade))
        /\ name \in Range(ProtocolInfo(hs_log[i].upgrade))
        /\ ProtocolTryFrom(name) # << >>
    /\ (apply_pc = "done" /\ hs_log = << >>) => apply_ret[1] = "Select"

\* C15 witness: the enumeration held malformed names, the remote accepts one
\* of them, and the handshake ran on a well-formed name.
C15_Witness ==
    /\ hs_log # << >>
    /\ warned # << >>
    /\ NameBad \in remote

C17_SelectLeftThenRight ==
    (apply_pc # "idle" /\ upgrade[1] = "Select") =>
        LET pu == ToProtocolsIter(upgrade[2])
            pv == ToProtocolsIter(upgrade[3])
        IN
        /\ offered = pu \o SelectSeq(pv, LAMBDA q : q \notin Range(pu))
        /\ negotiated # << >> =>
            LET p == negotiated[1] IN
            IF p \in Range(pu)
                THEN /\ hs_log = Invoked(upgrade[2], p)
                     /\ apply_ret[1] = "Output" =>
                            apply_ret[2] = << "Left", Handshake(upgrade[2], p).val >>
                ELSE /\ p \in Range(pv)
                     /\ hs_log = Invoked(upgrade[3], p)
                     /\ apply_ret[1] = "Output" =>
                            apply_ret[2] = << "Right", Handshake(upgrade[3], p).val >>

\* C17 witness: scenario S3.
C17_Witness ==
    /\ upgrade = SelectUpgrade(ReadyUpgrade(NameA, << "T", 1 >>),
                               ReadyUpgrade(NameB, << "T", 2 >>))
    /\ endpoint = "Outbound"
    /\ remote = {NameB}
    /\ apply_ret = << "Output", << "Right", << "T", 2 >> >> >>

C19_MapOnce ==
    (apply_pc # "idle" /\ upgrade[1] \in {"Map", "MapErr"}) =>
        /\ offered = ToProtocolsIter(upgrade[2])
        /\ apply_pc # "done" => fn_calls = [f |-> 0, g |-> 0]
        /\ (apply_pc = "done" /\ select_res = "Ok") =>
            LET h == Handshake(upgrade[2], negotiated[1])
                mapped == IF upgrade[1] = "Map" THEN "ok" ELSE "err"
                applied == IF h.status = mapped THEN 1 ELSE 0
            IN
            /\ apply_ret[1] = IF h.status = "ok" THEN "Output" ELSE "Apply"
            /\ apply_ret[2] = IF h.status = mapped THEN << upgrade[3], h.val >> ELSE h.val
            /\ fn_calls = IF upgrade[1] = "Map"
                            THEN [f |-> h.f + applied, g |-> h.g]
                            ELSE [f |-> h.f, g |-> h.g + applied]

\* C19 witness: Map around an upgrade whose handshake succeeded returned
\* f(output) after one application of f.
C19_Witness ==
    /\ upgrade[1] = "Map"
    /\ apply_ret = << "Output", << "f", << "T", 3 >> >> >>
    /\ fn_calls = [f |-> 1, g |-> 0]

\* C20: an upgrade that offers no protocol (Denied, Optional without an
\* upgrade) makes apply fail with Select and no handshake is invoked;
\* Optional around U offers U's protocols, invokes U's handshake and returns
\* what U returns.
C20_EmptyOfferFails ==
    apply_pc # "idle" =>
        /\ upgrade \in {DeniedUpgrade, OptionalUpgrade(<< >>)} => offered = << >>
        /\ offered = << >> =>
            /\ hs_log = << >>
            /\ select_res # "Ok"
            /\ apply_pc = "done" => apply_ret[1] = "Select"
        /\ (upgrade[1] = "Optional" /\ upgrade[2] # << >>) =>
            /\ offered = ToProtocolsIter(upgrade[2][1])
            /\ negotiated # << >> => hs_log = Invoked(upgrade[2][1], negotiated[1])
            /\ (apply_pc = "done" /\ select_res = "Ok") =>
                 apply_ret = UpgradeOutcome(Handshake(upgrade[2][1], negotiated[1]))

\* C20 witness: apply with Optional without an upgrade failed with the
\* no-protocol error although the remote accepts names.
C20_Witness ==
    /\ upgrade = OptionalUpgrade(<< >>)
    /\ remote = {NameA, NameB}
    /\ apply_ret = << "Select", "NoProtocol" >>

\* C28: no poll_outbound or poll_close call polls a future that stands at the
\* acquisition of the async lock while the call holds the fast lock on the
\* inner state.
C28_NoAsyncLockUnderFastLock ==
    [][/\ (PollOutbound /\ AtAsyncLock(outbound_fut)) => ~InnerHeldAtPoll("poll_outbound")
       /\ (PollClose /\ AtAsyncLock(close_fut)) => ~InnerHeldAtPoll("poll_close")
    ]_vars

\* C29: while the outbound future waits for the open signal of the channel it
\* created it does not hold the async lock, and every poll_outbound step that
\* finds create_data_channel returned leaves the lock free.
C29_LockFreeWhileOpening ==
    /\ [](outbound_fut = "open" => peer_lock # "outbound")
    /\ [][(PollOutbound /\ ret'.res # "Panic" /\ outbound_fut' # "create"
            /\ peer_lock = "outbound") => peer_lock' = "free"]_vars

\* C29 witness: poll_close acquired the lock and closed the connection while
\* the outbound open still waits for its channel to open.
C29_Witness ==
    /\ outbound_fut = "open"
    /\ och[Len(och)] = "registered"
    /\ ret.op = "poll_close" /\ ret.res = "Ok"
    /\ conn_state = "Closed"

\* C30: create_data_channel and close of the peer connection never run at the
\* same time, and each runs only while its own future holds the async lock.
C30_CreateCloseExclusive ==
    /\ ~(create_res = "running" /\ close_res = "running")
    /\ create_res = "running" => peer_lock = "outbound"
    /\ close_res = "running" => peer_lock = "close"

\* C30 witness: poll_close was called while create_data_channel runs, and
\* found the lock taken.
C30_Witness ==
    /\ create_res = "running"
    /\ close_fut = "lock"
    /\ ret.op = "poll_close" /\ ret.res = "Pending"

\* The format rules of a protocol name: a leading '/' and at most
\* MAX_PROTOCOL_LEN bytes.
StartsWithSlash(s) == Len(s) >= 1 /\ s[1] = "/"
ValidName(s) == StartsWithSlash(s) /\ Len(s) <= MAX_PROTOCOL_LEN

\* C24: try_from_owned(s) succeeds exactly when s starts with '/' and is at
\* most 140 bytes long, and then the protocol's name is s; otherwise it fails
\* with InvalidProtocol.  A name of 140 bytes is accepted, one of 141 bytes is
\* rejected.
C24_TryFromOwnedIffValid ==
    pctor.op = "try_from_owned" =>
        /\ (pctor.res[1] = "Ok") <=> ValidName(pname)
        /\ pctor.res[1] = "Ok" => AsStr(pctor.res[2]) = pname
        /\ pctor.res[1] # "Ok" =>
            pctor.res[1] = "Err" /\ pctor.res[2][1] = "InvalidProtocol"
        /\ (StartsWithSlash(pname) /\ Len(pname) = 140) => pctor.res[1] = "Ok"
        /\ Len(pname) = 141 => pctor.res[1] = "Err"

\* C24 witness: try_from_owned accepted a name of exactly 140 bytes.
C24_Witness ==
    /\ pctor.op = "try_from_owned"
    /\ Len(pname) = MAX_PROTOCOL_LEN
    /\ pctor.res[1] = "Ok"

\* C25: for a protocol p a constructor returned whose name obeys the format
\* rules, try_from_owned(p.as_str()) returns Ok of a protocol that is equal to
\* p and has the same as_str, whether p is static or owned.
C25_RoundTrip ==
    (pround # << "none" >> /\ ValidName(AsStr(pctor.res[2]))) =>
        /\ pround[1] = "Ok"
        /\ ProtocolEq(pround[2], pctor.res[2])
        /\ ProtocolEq(pctor.res[2], pround[2])
        /\ AsStr(pround[2]) = AsStr(pctor.res[2])

\* C25 witness: a static protocol of 140 bytes went through the round trip
\* and came back as an owned protocol.
C25_Witness ==
    /\ pctor.op = "from_static"
    /\ Len(pname) = MAX_PROTOCOL_LEN
    /\ pround[1] = "Ok"
    /\ pround[2].inner.variant = "owned"
    /\ pctor.res[2].inner.variant = "static"

\* C27: from_static(s) panics when s does not start with '/', and otherwise
\* returns a protocol whose as_str is s.
C27_FromStaticPanics ==
    pctor.op = "from_static" =>
        IF StartsWithSlash(pname)
            THEN pctor.res[1] = "Ok" /\ AsStr(pctor.res[2]) = pname
            ELSE pctor.res = << "Panic" >>

\* C27 witness: from_static panicked on a non-empty string without the
\* leading '/'.
C27_Witness ==
    /\ pctor.op = "from_static"
    /\ Len(pname) >= 1 /\ pname[1] # "/"
    /\ pctor.res = << "Panic" >>

\* The names of a sequence of protocols.
NamesOf(ps) == [i \in DOMAIN ps |-> AsStr(ps[i])]

\* C26: the offered list is the sub-sequence of the well-formed names of the
\* upgrade's enumeration, in the enumeration's order; the malformed names, and
\* only they, got a diagnostic each; and the filtering returns no error: apply
\* goes on to the negotiation with what is left.
C26_MalformedFiltered ==
    apply_pc # "idle" =>
        LET names == ProtocolInfo(upgrade) IN
        /\ NamesOf(offered) = SelectSeq(names, LAMBDA n : IsUtf8(n) /\ ValidName(n))
        /\ warned = SelectSeq(names, LAMBDA n : ~(IsUtf8(n) /\ ValidName(n)))
        /\ Len(offered) + Len(warned) = Len(names)
        /\ select_calls = 1
        /\ apply_pc = "negotiating" => apply_ret = << "none" >>
        /\ apply_ret[1] = "Select" => select_res \in {"NoProtocol", "ProtocolError"}

\* C26 witness: of the enumeration "/b", "bad", "/a", a name that is not
\* UTF-8, "/b", the well-formed names were offered in that order, the two
\* malformed ones got a diagnostic, and the negotiation went through.
C26_Witness ==
    /\ ProtocolInfo(upgrade) = << NameB, NameBad, NameA, NameRaw, NameB >>
    /\ NamesOf(offered) = << NameB, NameA, NameB >>
    /\ warned = << NameBad, NameRaw >>
    /\ apply_pc = "handshake"
    /\ negotiated # << >>

\* The leaf upgrade whose handshake the apply call invoked is a Pending.
PendingInvoked == hs_log # << >> /\ hs_log[1].upgrade[1] = "Pending"

\* C22: Pending(P) offers P and nothing else; an apply whose negotiation ended
\* with a Pending's protocol invoked that handshake and stays in it for ever,
\* so an apply with Pending(P) returns neither an output nor an Apply error: if
\* it returns at all, it returns the Select error of a failed negotiation.
C22_PendingNeverCompletes ==
    /\ [](upgrade[1] = "Pending" =>
            /\ apply_pc # "idle" => NamesOf(offered) = << upgrade[2] >>
            /\ apply_ret[1] \in {"none", "Select"}
            /\ apply_pc = "handshake" => PendingInvoked /\ negotiated = offered)
    /\ [](PendingInvoked => apply_pc = "handshake" /\ apply_ret = << "none" >>)
    /\ [][(PendingInvoked /\ apply_pc = "handshake") => apply_pc' = "handshake"]_vars

\* C22 witness: the remote accepted P, the handshake of Pending(P) was invoked
\* and has not completed.
C22_Witness ==
    /\ upgrade = PendingUpgrade(NameA)
    /\ NameA \in remote
    /\ select_res = "Ok"
    /\ PendingInvoked
    /\ apply_pc = "handshake"

\* The names the listener and the dialer offer.
ListenerNames == Range(NamesOf(offered))
DialerNames == Range(NamesOf(peer.offered))

\* C21: an end that uses Ready(P, T) offers exactly P, and once P is
\* negotiated its apply returns Output(T) and no error; when both ends use
\* the same Ready(P, T), neither apply returns anything but Output(T).
C21_ReadyBothOk ==
    apply_pc # "idle" =>
        /\ upgrade[1] = "Ready" =>
            /\ NamesOf(offered) = << upgrade[2] >>
            /\ apply_ret[1] # "Apply"
            /\ (apply_pc = "done" /\ select_res = "Ok") =>
                apply_ret = << "Output", upgrade[3] >>
        /\ peer.upgrade[1] = "Ready" =>
            /\ NamesOf(peer.offered) = << peer.upgrade[2] >>
            /\ peer.ret[1] # "Apply"
            /\ (peer.pc = "done" /\ peer.negotiated # << >>) =>
                peer.ret = << "Output", peer.upgrade[3] >>
        /\ (upgrade[1] = "Ready" /\ peer.upgrade = upgrade) =>
            /\ apply_ret \in { << "none" >>, << "Output", upgrade[3] >> }
            /\ peer.ret \in { << "none" >>, << "Output", upgrade[3] >> }

\* C21 witness: listener and dialer both used Ready("/a", 1) and both applies
\* returned Ok(1).
C21_Witness ==
    /\ upgrade = ReadyUpgrade(NameA, << "T", 1 >>)
    /\ peer.upgrade = upgrade
    /\ apply_pc = "done" /\ peer.pc = "done"
    /\ apply_ret = << "Output", << "T", 1 >> >>
    /\ peer.ret = << "Output", << "T", 1 >> >>

\* C23: when listener and dialer offer no protocol in common, no handshake is
\* invoked at either end, both applies end in the same step, and both return
\* UpgradeError::Select with the no-protocol error.
C23_NoOverlapBothSelect ==
    (apply_pc # "idle" /\ ListenerNames \cap DialerNames = {}) =>
        /\ hs_log = << >> /\ peer.hs_log = << >>
        /\ apply_pc \in {"negotiating", "done"}
        /\ peer.pc = apply_pc
        /\ apply_pc = "done" =>
            /\ apply_ret = << "Select", "NoProtocol" >>
            /\ peer.ret = << "Select", "NoProtocol" >>

\* C23 witness: the listener offered "/a" only, the dialer "/b" only, and
\* both applies returned the no-protocol error.
C23_Witness ==
    /\ ListenerNames = {NameA}
    /\ DialerNames = {NameB}
    /\ apply_pc = "done" /\ peer.pc = "done"
    /\ apply_ret = << "Select", "NoProtocol" >>
    /\ peer.ret = << "Select", "NoProtocol" >>
    /\ hs_log = << >> /\ peer.hs_log = << >>

\* C31: once poll_close has been called, a poll_close call eventually returns
\* Ready, whatever the outbound future does in the meantime.
C31_CloseEventuallyReady == (close_fut # "None") ~> (close_ready > 0)

\* C33: once the Connection (and the one-shot receiver in its outbound
\* future) is gone, an outbound channel whose handler had not fired ends
\* closed by the adapter when its detach succeeds, its handler never ends in
\* "sent", no poll_* call returns a substream any more, and a channel the
\* adapter closed is in no substream that was ever returned.
C33_AbandonedOpenClosed ==
    /\ [](\A i \in DOMAIN och : och[i] = "closed" =>
            /\ \A k \in DOMAIN substreams :
                ~(substreams[k].dir = "out" /\ substreams[k].ch = i)
            /\ ~(ret.op = "poll_outbound" /\ ret.res = "Ok" /\ ret.ch = i))
    /\ [][conn_state = "Dropped" =>
            /\ substreams' = substreams /\ delivered' = delivered /\ ret' = ret
            /\ \A i \in DOMAIN och :
                /\ och[i] \in {"registered", "detaching"} => och'[i] # "sent"
                /\ (och[i] = "detaching" /\ OutDetachOk(i)) => och'[i] = "closed"
         ]_vars

\* C33 witness: the connection was dropped while its outbound channel had
\* not opened; the channel opened, was detached and was closed by the adapter.
C33_Witness ==
    /\ conn_state = "Dropped"
    /\ Len(och) = 1 /\ och[1] = "closed"
    /\ out_ready = 0
    /\ substreams = << >>

\* C32: a poll_inbound call returns Err(InternalError) only when a poll_close
\* call returned Ok before it; while the connection is Open or Closing, a
\* failed close included, it returns Pending or Ok(substream).
C32_InboundErrOnlyAfterClose ==
    /\ [](conn_state = "Closed" <=> ~rx_open)
    /\ [][PollInbound =>
            /\ ret'.res \in {"Pending", "Ok", "ErrInternal"}
            /\ ret'.res = "ErrInternal" => (conn_state = "Closed" /\ close_ready > 0)
            /\ conn_state \in {"Open", "Closing"} => ret'.res \in {"Pending", "Ok"}
         ]_vars

\* C32 witness: poll_close returned Ok, the buffer is drained, and poll_inbound
\* returned Err(InternalError).
C32_Witness ==
    /\ conn_state = "Closed"
    /\ ret.op = "poll_inbound" /\ ret.res = "ErrInternal"
    /\ delivered # << >>

\* C34: a failed detach of an incoming channel leaves the buffer, the
\* receiver and what the last poll_* call returned as they were, the channel
\* is never sent or delivered, and the receiver stays open until a poll_close
\* returns Ok, so that a channel that opens later is sent and delivered.
C34_DetachFailureHarmless ==
    /\ [](\A c \in DOMAIN chan : chan[c] = "dropped" =>
            c \notin Range(sent) /\ c \notin Range(queue) /\ c \notin Range(delivered))
    /\ [](conn_state # "Closed" => rx_open)
    /\ [][\A c \in DOMAIN chan : DetachErr(c) =>
            /\ queue' = queue /\ sent' = sent /\ parked' = parked
            /\ rx_open' = rx_open /\ ret' = ret /\ faulted' = faulted
         ]_vars
    /\ [][\A k \in DOMAIN chan :
            (/\ DetachOk(k)
             /\ \E c \in DOMAIN chan : chan[c] = "dropped"
             /\ conn_state # "Closed"
             /\ k \notin Range(parked)) =>
                /\ sent' = Append(sent, k)
                /\ queue' = Append(queue, k)
         ]_vars

\* C34 witness: the first incoming channel failed to detach, the second one
\* opened after it and was delivered by poll_inbound.
C34_Witness ==
    /\ Len(chan) >= 2
    /\ chan[1] = "dropped"
    /\ opened = << 1, 2 >>
    /\ delivered = << 2 >>
    /\ ret.op = "poll_inbound" /\ ret.res = "Ok" /\ ret.ch = 2

\* C35: a poll_close call that returns Err(WebRTC) leaves the receiver open
\* and the buffer, the read-buffer hint and everything of the outbound side
\* untouched; afterwards channels are still sent and delivered.
C35_FailedCloseKeepsState ==
    /\ [][(PollClose /\ ret'.res = "ErrWebRTC") =>
            /\ rx_open /\ rx_open'
            /\ queue' = queue /\ parked' = parked /\ sent' = sent
            /\ read_buf_cap' = read_buf_cap
            /\ outbound_fut' = outbound_fut /\ och' = och /\ create_res' = create_res
            /\ conn_state' = "Closing"
         ]_vars
    /\ []((conn_state = "Closing" /\ close_ready > 0) => rx_open)

\* C35 witness: after a failed close, a channel was sent and then delivered by
\* poll_inbound.
C35_Witness ==
    /\ conn_state = "Closing"
    /\ close_ready = 1
    /\ ret.op = "poll_inbound" /\ ret.res = "Ok"
    /\ queue # << >>

\* C36 as stated: as long as no created channel has opened and been detached,
\* every poll_outbound call (of a future that has not finished) returns Pending.
C36_PendingUntilOpen ==
    [][(/\ PollOutbound
        /\ outbound_fut # "done"
        /\ \A i \in DOMAIN och : och[i] # "sent") => ret'.res = "Pending"]_vars

\* C36, amended: poll_outbound returns Ok only when the channel it created has
\* opened and its detach has succeeded; while that channel is still opening
\* or detaching it returns Pending; it returns Err(WebRTC) when
\* create_data_channel fails and Err(InternalError) when the detach fails or
\* the handler is dropped; the substream of an Ok wraps the created channel,
\* and the call leaves the inbound buffer alone.
C36_OkOnlyAfterOpenAndDetach ==
    /\ []((ret.op = "poll_outbound" /\ ret.res = "Ok") =>
            /\ ret.ch = Len(och) /\ och[ret.ch] = "sent"
            /\ substreams # << >>
            /\ substreams[Len(substreams)].dir = "out"
            /\ substreams[Len(substreams)].ch = ret.ch)
    /\ [](\A k \in DOMAIN substreams : substreams[k].dir = "out" =>
            /\ substreams[k].ch \in DOMAIN och
            /\ och[substreams[k].ch] = "sent")
    /\ [][\A i \in DOMAIN och :
            /\ (och'[i] = "sent" /\ och[i] # "sent") => (och[i] = "detaching" /\ OutDetachOk(i))
            /\ (och'[i] = "detaching" /\ och[i] # "detaching") =>
                    (och[i] = "registered" /\ OutOnOpen(i))
         ]_vars
    /\ [][PollOutbound =>
            /\ queue' = queue /\ delivered' = delivered /\ sent' = sent
            /\ (outbound_fut = "open" /\ och[Len(och)] \in {"registered", "detaching"})
                    => ret'.res = "Pending"
            /\ ret'.res = "Ok" =>
                    /\ outbound_fut = "open" /\ och[Len(och)] = "sent"
                    /\ substreams' = Append(substreams,
                                            NewSubstream("out", Len(och), read_buf_cap))
            /\ ret'.res = "ErrInternal" =>
                    /\ outbound_fut = "open"
                    /\ och[Len(och)] \in {"dropped", "handler_dropped"}
            /\ ret'.res = "ErrWebRTC" => (och' = och /\ outbound_fut # "open")
            /\ ret'.res # "Ok" => substreams' = substreams
         ]_vars

\* C36 witness: poll_outbound returned the created channel while an incoming
\* channel was waiting in the inbound buffer.
C36_Witness ==
    /\ ret.op = "poll_outbound" /\ ret.res = "Ok" /\ ret.ch = 1
    /\ och = << "sent" >>
    /\ queue # << >> /\ delivered = << >>
    /\ substreams = << NewSubstream("out", 1, read_buf_cap) >>

----
(***************************************************************************)
(* SwarmBuilder: a type-state builder.  Every method consumes the builder  *)
(* and returns the builder of a later phase; the provider is a type        *)
(* parameter that the methods pass on.  All cargo features are enabled.    *)
(***************************************************************************)

\* Calls of with_other_transport on one builder.
MaxOther == 2

\* The phase types, in the order the file declares them.
PhaseOrder ==
    << "Provider", "Tcp", "TcpTls", "TcpNoise", "Quic", "OtherTransport", "Dns",
       "Relay", "RelayTls", "RelayNoise", "Websocket", "WebsocketTls",
       "WebsocketNoise", "Behaviour", "Build" >>

PhaseRank(phase) == Pos(PhaseOrder, phase)

\* The runtime-specific module a method of the impl block for provider P
\* takes its transport from (async_io / async_std / DnsConfig for AsyncStd,
\* tokio / TokioDnsConfig for Tokio).
Runtime(provider) == IF provider = "Tokio" THEN "tokio" ELSE "async-std"

\* The security upgrade of a noise phase with marker auth: with_noise adds
\* noise (next to tls when the marker is Tls), without_noise leaves tls.
AuthOf(auth, noise) ==
    IF auth = "Tls" THEN (IF noise THEN "tls+noise" ELSE "tls") ELSE "noise"

\* One transport of the composition.
Layer(kind, rt, auth) == << kind, rt, auth >>

\* SwarmBuilder::with_existing_identity (with_new_identity calls it)
WithExistingIdentity(b) == [b EXCEPT !.phase = "Provider"]

\* ProviderPhase::with_async_std
WithAsyncStd(b) == [b EXCEPT !.provider = "AsyncStd", !.phase = "Tcp"]

\* ProviderPhase::with_tokio: its return type is SwarmBuilder<AsyncStd, TcpPhase>.
WithTokio(b) == [b EXCEPT !.provider = "AsyncStd", !.phase = "Tcp"]

\* TcpPhase::with_tcp, with_tcp_config
WithTcp(b) == [b EXCEPT !.phase = "TcpTls"]

\* TcpPhase::without_tcp: a dummy transport stands in for TCP.
WithoutTcp(b) ==
    [b EXCEPT !.phase = "Quic", !.transport = << Layer("dummy", "-", "-") >>]

\* TcpTlsPhase::with_tls / without_tls
TcpWithTls(b) == [b EXCEPT !.phase = "TcpNoise", !.auth = "Tls"]
TcpWithoutTls(b) == [b EXCEPT !.phase = "TcpNoise", !.auth = "WithoutTls"]

\* construct_quic_builder!
ConstructQuicBuilder(b, noise) ==
    [b EXCEPT !.phase = "Quic", !.auth = "-",
              !.transport = << Layer("tcp", Runtime(b.provider), AuthOf(b.auth, noise)) >>]

\* QuicPhase::with_quic / without_quic
WithQuic(b) ==
    [b EXCEPT !.phase = "OtherTransport",
              !.transport = Append(b.transport, Layer("quic", Runtime(b.provider), "-"))]
WithoutQuic(b) == [b EXCEPT !.phase = "OtherTransport"]

\* OtherTransportPhase::with_other_transport / without_any_other_transports
WithOtherTransport(b) ==
    [b EXCEPT !.phase = "OtherTransport",
              !.transport = Append(b.transport, Layer("other", "-", "-"))]
WithoutAnyOtherTransports(b) == [b EXCEPT !.phase = "Dns"]

\* DnsPhase::with_dns (the resolver wraps the transport built so far) / without_dns
WithDns(b) ==
    [b EXCEPT !.phase = "Relay",
              !.transport = Append(b.transport, Layer("dns", Runtime(b.provider), "-"))]
WithoutDns(b) == [b EXCEPT !.phase = "Relay"]

\* RelayPhase::with_relay / without_relay
WithRelay(b) == [b EXCEPT !.phase = "RelayTls"]
WithoutRelay(b) == [b EXCEPT !.phase = "Websocket", !.relay = "NoRelayBehaviour"]

\* RelayTlsPhase::with_tls / without_tls
RelayWithTls(b) == [b EXCEPT !.phase = "RelayNoise", !.auth = "Tls"]
RelayWithoutTls(b) == [b EXCEPT !.phase = "RelayNoise", !.auth = "WithoutTls"]

\* construct_websocket_builder!
ConstructWebsocketBuilder(b, noise) ==
    [b EXCEPT !.phase = "Websocket", !.auth = "-", !.relay = "client::Behaviour",
              !.transport = Append(b.transport, Layer("relay", "-", AuthOf(b.auth, noise)))]

\* WebsocketPhase::with_websocket / without_websocket
WithWebsocket(b) == [b EXCEPT !.phase = "WebsocketTls"]
WithoutWebsocket(b) == [b EXCEPT !.phase = "Behaviour"]

\* WebsocketTlsPhase::with_tls / without_tls
WebsocketWithTls(b) == [b EXCEPT !.phase = "WebsocketNoise", !.auth = "Tls"]
WebsocketWithoutTls(b) == [b EXCEPT !.phase = "WebsocketNoise", !.auth = "WithoutTls"]

\* construct_behaviour_builder!: the websocket transport comes first.
ConstructBehaviourBuilder(b, noise) ==
    [b EXCEPT !.phase = "Behaviour", !.auth = "-",
              !.transport = << Layer("websocket", Runtime(b.provider), AuthOf(b.auth, noise)) >>
                                \o b.transport]

\* BehaviourPhase::with_behaviour, when the constructor returns Ok: the
\* constructor gets the relay behaviour when there is one.
WithBehaviour(b) ==
    [b EXCEPT !.phase = "Build",
              !.behaviour = IF b.relay = "client::Behaviour" THEN "B(relay)" ELSE "B",
              !.relay = "-"]

\* A shortcut that skips the tls phase of the relay.
QuicWithRelaySkipsTls(b) == [b EXCEPT !.phase = "RelayNoise"]

\* QuicPhase::with_relay: written out, not as a chain.
QuicWithRelay(b) == [b EXCEPT !.phase = "RelayTls"]

\* A method of the phase the builder is in, without the shortcuts.
Step(b, m) ==
    CASE << b.phase, m >> = << "Initial", "with_existing_identity" >> -> WithExistingIdentity(b)
      [] << b.phase, m >> = << "Provider", "with_async_std" >> -> WithAsyncStd(b)
      [] << b.phase, m >> = << "Provider", "with_tokio" >> -> WithTokio(b)
      [] << b.phase, m >> = << "Tcp", "with_tcp" >> -> WithTcp(b)
      [] << b.phase, m >> = << "Tcp", "without_tcp" >> -> WithoutTcp(b)
      [] << b.phase, m >> = << "TcpTls", "with_tls" >> -> TcpWithTls(b)
      [] << b.phase, m >> = << "TcpTls", "without_tls" >> -> TcpWithoutTls(b)
      [] << b.phase, m >> = << "TcpNoise", "with_noise" >> -> ConstructQuicBuilder(b, TRUE)
      [] << b.phase, m >> = << "TcpNoise", "without_noise" >> -> ConstructQuicBuilder(b, FALSE)
      [] << b.phase, m >> = << "Quic", "with_quic" >> -> WithQuic(b)
      [] << b.phase, m >> = << "Quic", "without_quic" >> -> WithoutQuic(b)
      [] << b.phase, m >> = << "OtherTransport", "with_other_transport" >> -> WithOtherTransport(b)
      [] << b.phase, m >> = << "OtherTransport", "without_any_other_transports" >>
            -> WithoutAnyOtherTransports(b)
      [] << b.phase, m >> = << "Dns", "with_dns" >> -> WithDns(b)
      [] << b.phase, m >> = << "Dns", "without_dns" >> -> WithoutDns(b)
      [] << b.phase, m >> = << "Relay", "with_relay" >> -> WithRelay(b)
      [] << b.phase, m >> = << "Relay", "without_relay" >> -> WithoutRelay(b)
      [] << b.phase, m >> = << "RelayTls", "with_tls" >> -> RelayWithTls(b)
      [] << b.phase, m >> = << "RelayTls", "without_tls" >> -> RelayWithoutTls(b)
      [] << b.phase, m >> = << "RelayNoise", "with_noise" >> -> ConstructWebsocketBuilder(b, TRUE)
      [] << b.phase, m >> = << "RelayNoise", "without_noise" >>
            -> ConstructWebsocketBuilder(b, FALSE)
      [] << b.phase, m >> = << "Websocket", "with_websocket" >> -> WithWebsocket(b)
      [] << b.phase, m >> = << "Websocket", "without_websocket" >> -> WithoutWebsocket(b)
      [] << b.phase, m >> = << "WebsocketTls", "with_tls" >> -> WebsocketWithTls(b)
      [] << b.phase, m >> = << "WebsocketTls", "without_tls" >> -> WebsocketWithoutTls(b)
      [] << b.phase, m >> = << "WebsocketNoise", "with_noise" >>
            -> ConstructBehaviourBuilder(b, TRUE)
      [] << b.phase, m >> = << "WebsocketNoise", "without_noise" >>
            -> ConstructBehaviourBuilder(b, FALSE)
      [] << b.phase, m >> = << "Behaviour", "with_behaviour" >> -> WithBehaviour(b)

\* self.m1().m2()...: the methods of ms called one after the other.
RECURSIVE Chain(_, _)
Chain(b, ms) == IF ms = << >> THEN b ELSE Chain(Step(b, Head(ms)), Tail(ms))

\* The chain of calls a shortcut method of a phase is written as.
ShortcutChain(phase, m) ==
    CASE << phase, m >> = << "Tcp", "with_quic" >> -> << "without_tcp", "with_quic" >>
      [] << phase, m >> = << "Tcp", "with_other_transport" >>
            -> << "without_tcp", "without_quic", "with_other_transport" >>
      [] << phase, m >> = << "TcpTls", "with_noise" >> -> << "without_tls", "with_noise" >>
      [] << phase, m >> = << "Quic", "with_other_transport" >>
            -> << "without_quic", "with_other_transport" >>
      [] << phase, m >> = << "Quic", "with_websocket" >>
            -> << "without_quic", "without_any_other_transports", "without_dns",
                  "without_relay", "with_websocket" >>
      [] << phase, m >> = << "Quic", "with_behaviour" >>
            -> << "without_quic", "without_any_other_transports", "without_dns",
                  "without_relay", "without_websocket", "with_behaviour" >>
      [] << phase, m >> = << "Quic", "with_dns" >>
            -> << "without_quic", "without_any_other_transports", "with_dns" >>
      [] << phase, m >> = << "OtherTransport", "with_dns" >>
            -> << "without_any_other_transports", "with_dns" >>
      [] << phase, m >> = << "OtherTransport", "with_relay" >>
            -> << "without_any_other_transports", "without_dns", "with_relay" >>
      [] << phase, m >> = << "OtherTransport", "with_behaviour" >>
            -> << "without_any_other_transports", "without_dns", "without_relay",
                  "without_websocket", "with_behaviour" >>
      [] << phase, m >> = << "Dns", "with_behaviour" >>
            -> << "without_dns", "without_relay", "without_websocket", "with_behaviour" >>
      [] << phase, m >> = << "Relay", "with_websocket" >>
            -> << "without_relay", "with_websocket" >>
      [] << phase, m >> = << "Relay", "with_behaviour" >>
            -> << "without_relay", "without_websocket", "with_behaviour" >>
      [] << phase, m >> = << "RelayTls", "with_noise" >> -> << "without_tls", "with_noise" >>
      [] << phase, m >> = << "Websocket", "with_behaviour" >>
            -> << "without_websocket", "with_behaviour" >>
      [] << phase, m >> = << "WebsocketTls", "with_noise" >>
            -> << "without_tls", "with_noise" >>

\* The shortcut methods of each phase that are written as a chain.
Shortcuts ==
    { << "Tcp", "with_quic" >>, << "Tcp", "with_other_transport" >>,
      << "TcpTls", "with_noise" >>,
      << "Quic", "with_other_transport" >>, << "Quic", "with_websocket" >>,
      << "Quic", "with_behaviour" >>, << "Quic", "with_dns" >>,
      << "OtherTransport", "with_dns" >>, << "OtherTransport", "with_relay" >>,
      << "OtherTransport", "with_behaviour" >>,
      << "Dns", "with_behaviour" >>,
      << "Relay", "with_websocket" >>, << "Relay", "with_behaviour" >>,
      << "RelayTls", "with_noise" >>,
      << "Websocket", "with_behaviour" >>,
      << "WebsocketTls", "with_noise" >> }

\* The private methods: callable inside the file only.
PrivateMethods ==
    { << "Tcp", "without_tcp" >>, << "TcpTls", "without_tls" >>,
      << "Quic", "without_quic" >>,
      << "OtherTransport", "without_any_other_transports" >>,
      << "Dns", "without_dns" >>, << "Relay", "without_relay" >>,
      << "RelayTls", "without_tls" >>, << "Websocket", "without_websocket" >>,
      << "WebsocketTls", "without_tls" >> }

\* The methods of each phase that are not shortcuts.
PhaseMethods ==
    { << "Initial", "with_existing_identity" >>,
      << "Provider", "with_async_std" >>, << "Provider", "with_tokio" >>,
      << "Tcp", "with_tcp" >>, << "TcpTls", "with_tls" >>,
      << "TcpNoise", "with_noise" >>, << "TcpNoise", "without_noise" >>,
      << "Quic", "with_quic" >>,
      << "OtherTransport", "with_other_transport" >>,
      << "Dns", "with_dns" >>, << "Relay", "with_relay" >>,
      << "RelayTls", "with_tls" >>,
      << "RelayNoise", "with_noise" >>, << "RelayNoise", "without_noise" >>,
      << "Websocket", "with_websocket" >>, << "WebsocketTls", "with_tls" >>,
      << "WebsocketNoise", "with_noise" >>, << "WebsocketNoise", "without_noise" >>,
      << "Behaviour", "with_behaviour" >> } \cup PrivateMethods

\* The names of all methods.
MethodNames ==
    { pm[2] : pm \in PhaseMethods \cup Shortcuts } \cup { "with_relay", "build" }

\* Method m exists on builder b: without_noise exists for the marker Tls only.
HasMethod(b, m) ==
    /\ \/ << b.phase, m >> \in PhaseMethods \cup Shortcuts
       \/ << b.phase, m >> = << "Quic", "with_relay" >>
    /\ m = "without_noise" => b.auth = "Tls"

\* What method m of builder b returns when it does not fail.
Call(b, m) ==
    IF << b.phase, m >> = << "Quic", "with_relay" >> THEN QuicWithRelay(b)
    ELSE IF << b.phase, m >> \in Shortcuts THEN Chain(b, ShortcutChain(b.phase, m))
    ELSE Step(b, m)

\* The methods that return a Result.
Fallible(m) == m \in {"with_noise", "without_noise", "with_dns", "with_behaviour"}

\* with_other_transport calls on b so far.
Others(b) == Count(b.transport, Layer("other", "-", "-"))

\* The builder after a method took it (self) and returned no builder.
Consumed(b) == [b EXCEPT !.phase = "Gone"]

\* The executor of the libp2p_swarm::SwarmBuilder constructor that build
\* of the impl block for provider P calls.
Executor(provider) ==
    IF provider = "Tokio" THEN "with_tokio_executor" ELSE "with_async_std_executor"

\* A public method of the builder is called and returns a builder.
CallOk(m) ==
    /\ HasMethod(builder, m)
    /\ << builder.phase, m >> \notin PrivateMethods
    /\ m = "with_other_transport" => Others(builder) < MaxOther
    /\ builder' = Call(builder, m)
    /\ bcall' = [bcall EXCEPT
                    !.chosen = IF builder.phase = "Provider" THEN m ELSE @,
                    !.last = m,
                    !.res = "Ok",
                    !.behaviour_ok = @ \/ m = "with_behaviour"]
    /\ UNCHANGED << conn_vars, apply_vars, pair_vars, proto_vars >>

\* A public method that returns a Result returns Err: the builder is gone.
CallErr(m) ==
    /\ HasMethod(builder, m)
    /\ << builder.phase, m >> \notin PrivateMethods
    /\ Fallible(m)
    /\ builder' = Consumed(builder)
    /\ bcall' = [bcall EXCEPT !.last = m, !.res = "Err"]
    /\ UNCHANGED << conn_vars, apply_vars, pair_vars, proto_vars >>

\* BuildPhase::build
Build ==
    /\ builder.phase = "Build"
    /\ builder' = Consumed(builder)
    /\ bcall' = [bcall EXCEPT !.last = "build", !.res = "Swarm",
                              !.executor = Executor(builder.provider)]
    /\ UNCHANGED << conn_vars, apply_vars, pair_vars, proto_vars >>

NextBuilder ==
    \/ \E m \in MethodNames : CallOk(m)
    \/ \E m \in MethodNames : CallErr(m)
    \/ Build

SpecBuilder == Init /\ [][NextBuilder]_vars

\* C37: the provider of the builder, and the executor its build uses, are the
\* ones of the provider method that was called: Tokio and the tokio executor
\* after with_tokio, AsyncStd and the async-std executor after with_async_std.
C37_ProviderCarried ==
    /\ bcall.chosen = "with_tokio" =>
        /\ builder.provider = "Tokio"
        /\ bcall.executor \in {"none", "with_tokio_executor"}
    /\ bcall.chosen = "with_async_std" =>
        /\ builder.provider = "AsyncStd"
        /\ bcall.executor \in {"none", "with_async_std_executor"}

\* The private method that leaves a phase without adding anything.
Without(phase) ==
    CASE phase = "Tcp" -> "without_tcp"
      [] phase = "Quic" -> "without_quic"
      [] phase = "OtherTransport" -> "without_any_other_transports"
      [] phase = "Dns" -> "without_dns"
      [] phase = "Relay" -> "without_relay"
      [] phase = "Websocket" -> "without_websocket"
      [] phase \in {"TcpTls", "RelayTls", "WebsocketTls"} -> "without_tls"

\* Method m reached one phase at a time: the without step of every phase
\* that has no method m of its own, then m.
RECURSIVE StepByStep(_, _)
StepByStep(b, m) ==
    IF << b.phase, m >> \in PhaseMethods THEN Step(b, m)
    ELSE StepByStep(Step(b, Without(b.phase)), m)

\* C38: every method of a phase, private ones and shortcuts included, returns
\* a builder of a later phase of PhaseOrder, except with_other_transport of
\* OtherTransportPhase, which stays there; each shortcut returns what the
\* chain of without_* steps and the final with_* method returns; and a
\* builder is in BuildPhase, or was built, only after with_behaviour
\* returned Ok.
C38_PhasesForward ==
    /\ [](builder.phase \in Range(PhaseOrder) =>
            \A m \in MethodNames : HasMethod(builder, m) =>
                LET next == Call(builder, m) IN
                /\ next.phase \in Range(PhaseOrder)
                /\ PhaseRank(next.phase) >= PhaseRank(builder.phase)
                /\ PhaseRank(next.phase) = PhaseRank(builder.phase) =>
                        (builder.phase = "OtherTransport" /\ m = "with_other_transport"))
    /\ [](builder.phase \in Range(PhaseOrder) =>
            \A m \in MethodNames :
                (HasMethod(builder, m) /\ << builder.phase, m >> \notin PhaseMethods) =>
                    Call(builder, m) = StepByStep(builder, m))
    /\ []((builder.phase = "Build" \/ bcall.executor # "none") =>
            (bcall.behaviour_ok /\ builder.behaviour # "-"))
    /\ [][(builder.phase \in Range(PhaseOrder) /\ builder'.phase \in Range(PhaseOrder)) =>
            /\ PhaseRank(builder'.phase) >= PhaseRank(builder.phase)
            /\ PhaseRank(builder'.phase) = PhaseRank(builder.phase) =>
                    bcall'.last = "with_other_transport"
            /\ builder'.phase = "Build" =>
                    (bcall'.last = "with_behaviour" /\ bcall'.res = "Ok")
         ]_vars

\* C38 witness: with_other_transport was called MaxOther times in a row, and
\* the shortcut with_behaviour of OtherTransportPhase led to BuildPhase.
C38_Witness ==
    /\ builder.phase = "Build"
    /\ Others(builder) = MaxOther
    /\ bcall.last = "with_behaviour" /\ bcall.res = "Ok"
    /\ builder.behaviour = "B"

====
